---- MODULE Spec2Model ----
(***************************************************************************)
(* Nagel-Schreckenberg traffic simulation on a directed street multigraph  *)
(* (src/src/traffic_simulation.py): the vehicle registry, the occupancy    *)
(* index, add_vehicle, initialize_vehicles, spawn_from_od_matrix and the   *)
(* four phases of step(); and the zone costs and the gravity model that    *)
(* build the O-D matrix (src/generador_od.py).                             *)
(*                                                                         *)
(* Python's None is the empty tuple <<>>; an optional value x is <<x>>.    *)
(* An edge is the tuple <<u, v, key>>, as in the source.                   *)
(***************************************************************************)
EXTENDS Integers, Sequences, FiniteSets, TLC

VARIABLES
    graph,            \* self.graph: the edges in iteration order, each with length and num_cells
    v_max,            \* self.v_max
    p_slow,           \* self.p_slow, in quarters (0 = 0.0, 2 = 0.5, 4 = 1.0)
    vehicles,         \* self.vehicles: vehicle id -> Vehicle
    vehicle_counter,  \* self.vehicle_counter
    edge_occupation,  \* self.edge_occupation: edge -> (position -> vehicle id)
    time_step,        \* self.time_step
    avg_velocities,   \* self.avg_velocities: each mean kept as [sum, n]
    pc,               \* the statement the running call has reached ("idle": no call runs)
    idx,              \* the loop position of the running call
    frame,            \* the locals of the running initialize_vehicles call, or of the
                      \* running or last spawn_from_od_matrix call with its history
    step_entry,       \* history: vehicles and edge_occupation as the running step() found
                      \* them (kept by the runs that only step, NoEntry elsewhere)
    ret,              \* what the last completed call returned
    raised,           \* the exception that ended the run ("none": no exception)
    rng,              \* the generator of module random that every draw shares: the seed
                      \* it was last given and whether it was drawn from since
    halted,           \* history: the vehicles that overflowed an edge without successor
    step_draws,       \* history: the values step() drew from the generator, in order
    twin              \* a second simulation built alike, at rest while this one runs
                      \* (None: there is one simulation only)

vars == <<graph, v_max, p_slow, vehicles, vehicle_counter, edge_occupation,
          time_step, avg_velocities, pc, idx, frame, step_entry, ret, raised,
          rng, halted, step_draws, twin>>

config == <<graph, v_max, p_slow>>
stats == <<time_step, avg_velocities>>

-----------------------------------------------------------------------------
(* Bounds of the model *)

\* vehicles ever created in one run
MaxVehicles == 2
\* step() calls of a run in which calls of add_vehicle and step() interleave
MaxSteps == 2
\* step() calls of a run that only steps once the network is populated
MaxRunSteps == 3

-----------------------------------------------------------------------------
(* Values *)

None == <<>>
Some(x) == <<x>>
NoZone == "None"
ZoneNames == {"centro"}

Min(S) == CHOOSE x \in S : \A y \in S : x <= y
Max2(a, b) == IF a >= b THEN a ELSE b
Range(s) == {s[i] : i \in 1..Len(s)}

RECURSIVE SumOver(_, _)
SumOver(f, S) ==
    IF S = {} THEN 0
    ELSE LET x == CHOOSE y \in S : TRUE IN f[x] + SumOver(f, S \ {x})

\* cell_length in half metres (the default 7.5 m); edge lengths are in half metres too
cell_length == 15

-----------------------------------------------------------------------------
(* The street networks: edges in the graph's iteration order *)

RawEdge(u, v, k, len) == [edge |-> <<u, v, k>>, length |-> len]

\* A -> B (1 cell); B branches to a long street (4 cells, listed first) and to a
\* short dead end (2 cells).
NetBranch ==
    << RawEdge("A", "B", 0, 15), RawEdge("B", "C", 0, 60), RawEdge("B", "D", 0, 30) >>

\* A -> U (2 cells); U branches to a long street (4 cells, listed first) and to a
\* loop that returns to U (2 cells).
NetLoop ==
    << RawEdge("A", "U", 0, 30), RawEdge("U", "C", 0, 60), RawEdge("U", "U", 0, 30) >>

\* a ring of two streets (2 cells and 1 cell)
NetRing ==
    << RawEdge("A", "B", 0, 30), RawEdge("B", "A", 0, 8) >>

\* a faulty variant: the number of cells without the floor of one cell
NumCellsByCeiling(len) == (len + cell_length - 1) \div cell_length

\* num_cells = max(1, int(np.ceil(length / self.cell_length)))
NumCellsOfLength(len) == Max2(1, (len + cell_length - 1) \div cell_length)

\* the place of the nodes along a line, in half metres, for the edges that carry no
\* length: lines 93-98 measure the distance between the end nodes
NodeX == [A |-> 0, B |-> 20, C |-> 20, D |-> 51, U |-> 7]
GreatCircle(u, v) == IF NodeX[u] >= NodeX[v] THEN NodeX[u] - NodeX[v] ELSE NodeX[v] - NodeX[u]

\* line 89: the length of an edge whose data has no 'length'
NoLength == -1

\* lines 89-98: the length the edge carries, or else the distance between its nodes
EdgeLength(d) ==
    IF d.length # NoLength THEN d.length ELSE GreatCircle(d.edge[1], d.edge[2])

DiscretizeEdges(g) ==
    [i \in 1..Len(g) |->
        [edge |-> g[i].edge, length |-> EdgeLength(g[i]),
         num_cells |-> NumCellsOfLength(EdgeLength(g[i]))]]

Edges(g) == {g[i].edge : i \in 1..Len(g)}
EdgeData(g, e) == CHOOSE d \in Range(g) : d.edge = e
NumCells(g, e) == EdgeData(g, e).num_cells

\* self.graph.out_edges(node, keys=True), in iteration order
OutEdges(g, node) ==
    LET picked == SelectSeq(g, LAMBDA d : d.edge[1] = node)
    IN  [i \in 1..Len(picked) |-> picked[i].edge]

-----------------------------------------------------------------------------
(* Dictionaries *)

DictDel(d, k) == [x \in (DOMAIN d) \ {k} |-> d[x]]
DictSet(d, k, val) == [x \in (DOMAIN d) \cup {k} |-> IF x = k THEN val ELSE d[x]]
EmptyDict == [x \in {} |-> 0]

\* a faulty variant: the destination tag is not stored
VehicleWithoutDestination(id, edge, position, velocity, vmax, destination) ==
    [id |-> id, edge |-> edge, position |-> position, velocity |-> velocity,
     v_max |-> vmax, destination_zone |-> NoZone]

Vehicle(id, edge, position, velocity, vmax, destination) ==
    [id |-> id, edge |-> edge, position |-> position, velocity |-> velocity,
     v_max |-> vmax, destination_zone |-> destination]

-----------------------------------------------------------------------------
(* _get_distance_to_next_vehicle *)

\* the scan of the vehicle's own edge: the distances at which a cell ahead is occupied
OccupiedAhead(g, occ, veh) ==
    {dist \in 1..(NumCells(g, veh.edge) - 1) :
        /\ veh.position + dist < NumCells(g, veh.edge)
        /\ (veh.position + dist) \in DOMAIN occ[veh.edge]}

\* the scan of one outgoing edge: <<result>> when the scan returns, None when it runs off the edge
ScanNextEdge(g, occ, next_edge, distance, max_search_distance) ==
    LET n == NumCells(g, next_edge)
        stops == {pos \in 0..(n - 1) :
                     \/ pos \in DOMAIN occ[next_edge]
                     \/ distance + pos >= max_search_distance}
    IN  IF stops = {} THEN None
        ELSE LET pos == Min(stops)
             IN  IF pos \in DOMAIN occ[next_edge] THEN Some(distance + pos)
                 ELSE Some(max_search_distance)

RECURSIVE ScanOutEdges(_, _, _, _, _, _, _)
ScanOutEdges(g, occ, out, i, visited, distance, max_search_distance) ==
    IF i > Len(out) THEN max_search_distance
    ELSE IF out[i] \in visited
         THEN ScanOutEdges(g, occ, out, i + 1, visited, distance, max_search_distance)
         ELSE LET r == ScanNextEdge(g, occ, out[i], distance, max_search_distance)
              IN  IF r # None THEN r[1]
                  ELSE ScanOutEdges(g, occ, out, i + 1, visited, distance,
                                    max_search_distance)

GetDistanceToNextVehicle(g, occ, vmax, veh) ==
    LET ahead == OccupiedAhead(g, occ, veh)
    IN  IF ahead # {} THEN Min(ahead)
        ELSE ScanOutEdges(g, occ, OutEdges(g, veh.edge[2]), 1, {veh.edge},
                          NumCells(g, veh.edge) - veh.position, vmax * 2)

-----------------------------------------------------------------------------
(* _move_vehicle: the state after the call, what it returned and what it raised. *)
(* next_edge is the outcome of random.choice(next_edges), read only when drawn.  *)

Outcome(vehs, occ, result, exc) ==
    [vehicles |-> vehs, edge_occupation |-> occ, ret |-> result, raised |-> exc]

\* del self.edge_occupation[old_edge][old_position] on a missing key
KeyErrorOutcome(vehs, occ) == Outcome(vehs, occ, FALSE, "KeyError")

\* lines 282-294: the vehicle stays on its edge
MoveWithinEdge(vehs, occ, id, new_position) ==
    LET old_edge == vehs[id].edge
        old_position == vehs[id].position
        freed == DictDel(occ[old_edge], old_position)
    IN  IF old_position \notin DOMAIN occ[old_edge] THEN KeyErrorOutcome(vehs, occ)
        ELSE IF new_position \in DOMAIN freed
        THEN Outcome([vehs EXCEPT ![id].velocity = 0],
                     [occ EXCEPT ![old_edge] = DictSet(freed, old_position, id)],
                     FALSE, "none")
        ELSE Outcome([vehs EXCEPT ![id].position = new_position],
                     [occ EXCEPT ![old_edge] = DictSet(freed, new_position, id)],
                     TRUE, "none")

\* lines 303-310 and 320-327: the vehicle halts on the last cell of its edge
HaltAtEdgeEnd(g, vehs, occ, id, result) ==
    LET old_edge == vehs[id].edge
        old_position == vehs[id].position
        new_position == NumCells(g, old_edge) - 1
        freed == DictDel(occ[old_edge], old_position)
    IN  IF old_position \notin DOMAIN occ[old_edge] THEN KeyErrorOutcome(vehs, occ)
        ELSE Outcome([vehs EXCEPT ![id].position = new_position, ![id].velocity = 0],
                     [occ EXCEPT ![old_edge] = DictSet(freed, new_position, id)],
                     result, "none")

\* lines 329-334: the vehicle enters next_edge
EnterNextEdge(vehs, occ, id, next_edge, cells_remaining) ==
    LET old_edge == vehs[id].edge
        old_position == vehs[id].position
        freed == [occ EXCEPT ![old_edge] = DictDel(occ[old_edge], old_position)]
    IN  IF old_position \notin DOMAIN occ[old_edge] THEN KeyErrorOutcome(vehs, occ)
        ELSE Outcome([vehs EXCEPT ![id].edge = next_edge, ![id].position = cells_remaining],
                     [freed EXCEPT ![next_edge] = DictSet(freed[next_edge], cells_remaining, id)],
                     TRUE, "none")

\* a faulty variant: the overflow is not cut to the length of the next edge
NoClamp(cells_remaining, next_num_cells) == cells_remaining

\* lines 316-318: a vehicle that would cross the whole next edge stops on its last cell
ClampToEdge(cells_remaining, next_num_cells) ==
    IF cells_remaining >= next_num_cells THEN next_num_cells - 1 ELSE cells_remaining

MoveVehicle(g, vehs, occ, id, next_edge) ==
    LET vehicle == vehs[id]
        old_edge == vehicle.edge
        new_position == vehicle.position + vehicle.velocity
        num_cells == NumCells(g, old_edge)
    IN  IF new_position < num_cells
        THEN MoveWithinEdge(vehs, occ, id, new_position)
        ELSE IF Len(OutEdges(g, old_edge[2])) = 0
        THEN HaltAtEdgeEnd(g, vehs, occ, id, TRUE)
        ELSE LET cells_remaining ==
                     ClampToEdge(new_position - num_cells, NumCells(g, next_edge))
             IN  IF cells_remaining \in DOMAIN occ[next_edge]
                 THEN HaltAtEdgeEnd(g, vehs, occ, id, FALSE)
                 ELSE EnterNextEdge(vehs, occ, id, next_edge, cells_remaining)

\* line 303 is reached and true: the move overflows an edge that has no successor
OverflowsDeadEnd(g, vehicle) ==
    /\ vehicle.position + vehicle.velocity >= NumCells(g, vehicle.edge)
    /\ Len(OutEdges(g, vehicle.edge[2])) = 0

\* the outcomes of random.choice(next_edges); no draw is made on the other paths
NextEdgeChoices(g, vehicle) ==
    IF /\ vehicle.position + vehicle.velocity >= NumCells(g, vehicle.edge)
       /\ Len(OutEdges(g, vehicle.edge[2])) > 0
    THEN Range(OutEdges(g, vehicle.edge[2]))
    ELSE {None}

-----------------------------------------------------------------------------
(* add_vehicle, with edge and position resolved (lines 129-141) *)

\* a faulty variant: the id is taken from the counter before the cell is looked up
AddVehicleConsumingId(vehs, occ, counter, vmax, edge, position, velocity, destination) ==
    IF position \in DOMAIN occ[edge]
    THEN [vehicles |-> vehs, edge_occupation |-> occ, vehicle_counter |-> counter + 1,
          ret |-> None]
    ELSE [vehicles |-> [id \in (DOMAIN vehs) \cup {counter} |->
                           IF id = counter
                           THEN [id |-> counter, edge |-> edge, position |-> position,
                                 velocity |-> velocity, v_max |-> vmax,
                                 destination_zone |-> destination]
                           ELSE vehs[id]],
          edge_occupation |-> [occ EXCEPT ![edge] = DictSet(occ[edge], position, counter)],
          vehicle_counter |-> counter + 1,
          ret |-> Some(counter)]

AddVehicle(vehs, occ, counter, vmax, edge, position, velocity, destination) ==
    IF position \in DOMAIN occ[edge]
    THEN [vehicles |-> vehs, edge_occupation |-> occ, vehicle_counter |-> counter,
          ret |-> None]
    ELSE [vehicles |-> [id \in (DOMAIN vehs) \cup {counter} |->
                           IF id = counter
                           THEN Vehicle(counter, edge, position, velocity, vmax, destination)
                           ELSE vehs[id]],
          edge_occupation |-> [occ EXCEPT ![edge] = DictSet(occ[edge], position, counter)],
          vehicle_counter |-> counter + 1,
          ret |-> Some(counter)]

\* lines 118-121: edge=None draws random.choice(edges)
ResolveEdge(g, edge_arg) == IF edge_arg = None THEN Edges(g) ELSE {edge_arg}

\* lines 125-127: position=None draws random.randint(0, num_cells - 1)
ResolvePosition(g, edge, position_arg) ==
    IF position_arg = None THEN 0..(NumCells(g, edge) - 1) ELSE {position_arg[1]}

Returned(op, value) == [op |-> op, value |-> value]

\* the generator's state: seeded by the system at import, by random.seed(s) later.
\* Two states that differ here differ in the generator.
Unseeded == [seed |-> None, used |-> FALSE]
Seed(s) == [seed |-> Some(s), used |-> FALSE]
Draw(r) == [r EXCEPT !.used = TRUE]
NoFrame == [num_vehicles |-> 0, added |-> 0, attempts |-> 0, max_attempts |-> 0]

-----------------------------------------------------------------------------
(* The state after TrafficSimulation.__init__ *)

NoEntry == [vehicles |-> EmptyDict, edge_occupation |-> EmptyDict]

InitWith(raw, vmax, pslow) ==
    /\ graph = DiscretizeEdges(raw)
    /\ v_max = vmax
    /\ p_slow = pslow
    /\ vehicles = EmptyDict
    /\ vehicle_counter = 0
    /\ edge_occupation = [e \in Edges(raw) |-> EmptyDict]
    /\ time_step = 0
    /\ avg_velocities = <<>>
    /\ pc = "idle"
    /\ idx = 0
    /\ frame = NoFrame
    /\ step_entry = NoEntry
    /\ ret = Returned("__init__", None)
    /\ raised = "none"
    /\ rng = Unseeded
    /\ halted = {}
    /\ step_draws = <<>>
    /\ twin = None

-----------------------------------------------------------------------------
(* Calls of add_vehicle *)

Destinations == {NoZone} \cup ZoneNames

\* lines 129-141 on the simulation's state, with edge and position resolved
\* drawn: the edge or the position came from the generator (lines 121, 127); a
\* vehicle that is created draws its colour (lines 36, 40)
PlaceVehicle(edge, position, velocity, destination, drawn) ==
    LET r == AddVehicle(vehicles, edge_occupation, vehicle_counter, v_max,
                        edge, position, velocity, destination)
    IN  /\ vehicles' = r.vehicles
        /\ edge_occupation' = r.edge_occupation
        /\ vehicle_counter' = r.vehicle_counter
        /\ ret' = Returned("add_vehicle", r.ret)
        /\ rng' = (IF drawn \/ r.ret # None THEN Draw(rng) ELSE rng)

DoAddVehicle(edge_arg, position_arg, velocity, destination) ==
    \E edge \in ResolveEdge(graph, edge_arg) :
    \E position \in ResolvePosition(graph, edge, position_arg) :
        PlaceVehicle(edge, position, velocity, destination,
                     edge_arg = None \/ position_arg = None)

\* add_vehicle with each argument given or omitted; a position that is given is a
\* cell of the edge, a velocity is within 0..v_max
AddVehicleWith(destinations) ==
    /\ pc = "idle" /\ raised = "none"
    /\ vehicle_counter < MaxVehicles
    /\ \E edge_arg \in {None} \cup Edges(graph), velocity \in 0..v_max,
          destination \in destinations :
       \E edge \in ResolveEdge(graph, edge_arg) :
       \E position_arg \in {None} \cup {Some(p) : p \in 0..(NumCells(graph, edge) - 1)} :
       \E position \in ResolvePosition(graph, edge, position_arg) :
           PlaceVehicle(edge, position, velocity, destination,
                        edge_arg = None \/ position_arg = None)
    /\ UNCHANGED <<config, stats, pc, idx, frame, step_entry, raised,
                   halted, step_draws, twin>>

AddVehicleCall == AddVehicleWith({NoZone})

AddVehicleTagged == AddVehicleWith(Destinations)

\* add_vehicle with a position or a velocity outside the documented ranges:
\* the code takes whatever the caller passes
AddVehicleUnchecked ==
    /\ pc = "idle" /\ raised = "none"
    /\ vehicle_counter < MaxVehicles
    /\ \E edge \in Edges(graph) :
       \E position \in -1..NumCells(graph, edge), velocity \in -1..(v_max + 1) :
           /\ \/ position \notin 0..(NumCells(graph, edge) - 1)
              \/ velocity \notin 0..v_max
           /\ DoAddVehicle(edge, Some(position), velocity, NoZone)
    /\ UNCHANGED <<config, stats, pc, idx, frame, step_entry, raised,
                   halted, step_draws, twin>>

-----------------------------------------------------------------------------
(* initialize_vehicles(density), density in tenths *)

DensityTenths == 0..10

TotalCells(g) == SumOver([i \in 1..Len(g) |-> g[i].num_cells], 1..Len(g))

\* lines 151-164
InitializeVehiclesCall ==
    /\ pc = "idle" /\ raised = "none"
    /\ \E density \in DensityTenths :
        LET num_vehicles == (TotalCells(graph) * density) \div 10
        IN  /\ vehicle_counter + num_vehicles <= MaxVehicles
            /\ frame' = [num_vehicles |-> num_vehicles, added |-> 0, attempts |-> 0,
                         max_attempts |-> num_vehicles * 10]
    /\ pc' = "initialize_vehicles"
    /\ UNCHANGED <<config, stats, vehicles, vehicle_counter, edge_occupation, idx,
                   step_entry, ret, raised,
                   rng, halted, step_draws, twin>>

\* a faulty variant: the loop goes on until every vehicle asked for is placed
GoesOnUntilAdded(f) == f.added < f.num_vehicles

\* line 166: the condition of the while loop
InitializeGoesOn(f) == f.added < f.num_vehicles /\ f.attempts < f.max_attempts

\* lines 166-169: one iteration of the while loop
InitializeVehiclesAttempt ==
    /\ pc = "initialize_vehicles" /\ raised = "none"
    /\ InitializeGoesOn(frame)
    /\ DoAddVehicle(None, None, 0, NoZone)
    /\ frame' = [frame EXCEPT !.added = IF ret'.value # None THEN @ + 1 ELSE @,
                              !.attempts = @ + 1]
    /\ UNCHANGED <<config, stats, pc, idx, step_entry, raised,
                   halted, step_draws, twin>>

\* line 166 false: the loop ends and the call returns
InitializeVehiclesReturn ==
    /\ pc = "initialize_vehicles" /\ raised = "none"
    /\ ~InitializeGoesOn(frame)
    /\ pc' = "idle"
    /\ frame' = NoFrame
    /\ ret' = Returned("initialize_vehicles", None)
    /\ UNCHANGED <<config, stats, vehicles, vehicle_counter, edge_occupation, idx,
                   step_entry, raised,
                   rng, halted, step_draws, twin>>

-----------------------------------------------------------------------------
(* spawn_from_od_matrix(zones, od_matrix, scale, random_seed, max_attempts).     *)
(* zones and od_matrix are dicts, kept as sequences in iteration order; scale    *)
(* is in halves (scale2 = 2 * scale), a demand is a whole number of trips.       *)

RECURSIVE Flatten(_)
Flatten(seqs) == IF seqs = <<>> THEN <<>> ELSE Head(seqs) \o Flatten(Tail(seqs))

RECURSIVE Repeat(_, _)
Repeat(x, n) == IF n <= 0 THEN <<>> ELSE <<x>> \o Repeat(x, n - 1)

\* lines 183-185: the outgoing edges of a zone's nodes
ZoneOutEdges(g, node_ids) == Flatten([i \in 1..Len(node_ids) |-> OutEdges(g, node_ids[i])])

\* lines 181-187, 191: zones_with_edges.get(origin_zone), None as the empty list
OriginEdges(g, zones, origin_zone) ==
    LET found == SelectSeq(zones, LAMBDA z : z.name = origin_zone)
    IN  IF found = <<>> THEN <<>> ELSE ZoneOutEdges(g, found[Len(found)].node_ids)

\* round(): a tie goes to the even neighbour; n2 counts halves
RoundHalves(n2) ==
    LET q == n2 \div 2
    IN  IF n2 % 2 = 0 THEN q ELSE IF q % 2 = 0 THEN q ELSE q + 1

\* line 199
VehicleCount(demand, scale2) == RoundHalves(demand * scale2)

\* a faulty variant: a pair within one zone is served
PairIsSkippedByDemandOnly(origin_zone, destination_zone, demand, scale2) ==
    \/ demand <= 0
    \/ VehicleCount(demand, scale2) <= 0

\* lines 195-201
PairIsSkipped(origin_zone, destination_zone, demand, scale2) ==
    \/ demand <= 0
    \/ destination_zone = origin_zone
    \/ VehicleCount(demand, scale2) <= 0

\* lines 194-202 for one origin: one request for every vehicle of the loop at line 202
RowRequests(origin_zone, origin_edges, destinations, scale2) ==
    Flatten([j \in 1..Len(destinations) |->
        LET d == destinations[j]
        IN  IF PairIsSkipped(origin_zone, d.destination, d.demand, scale2) THEN <<>>
            ELSE Repeat([origin |-> origin_zone, destination |-> d.destination,
                         demand |-> d.demand, origin_edges |-> origin_edges],
                        VehicleCount(d.demand, scale2))])

\* lines 190-202: the vehicles the three loops ask for, in the order they are served
SpawnRequests(g, zones, od_matrix, scale2) ==
    Flatten([i \in 1..Len(od_matrix) |->
        LET origin_edges == OriginEdges(g, zones, od_matrix[i].origin)
        IN  IF origin_edges = <<>> THEN <<>>
            ELSE RowRequests(od_matrix[i].origin, origin_edges,
                             od_matrix[i].destinations, scale2)])

\* a faulty variant: only a negative scale is rejected
ScaleIsNegative(scale2) == scale2 < 0

\* line 178
ScaleIsRejected(scale2) == scale2 <= 0

\* a faulty variant: every vehicle served is counted
TotalAddedAlways(total_added, added_id) == total_added + 1

\* lines 222-223
TotalAdded(total_added, added_id) ==
    IF added_id # None THEN total_added + 1 ELSE total_added

\* line 205
LoopGoesOn(attempts, max_attempts, added_id) ==
    attempts < max_attempts /\ added_id = None

\* the zones of the runs: norte and centro have outgoing edges, puerto has none
SpawnZones ==
    << [name |-> "norte", node_ids |-> <<"A">>],
       [name |-> "centro", node_ids |-> <<"B">>],
       [name |-> "puerto", node_ids |-> <<"C", "D">>] >>

\* trips of one O-D pair
MaxDemand == 2
\* max_attempts
MaxAttempts == 2

OdRow(origin, destinations) == [origin |-> origin, destinations |-> destinations]
OdEntry(destination, demand) == [destination |-> destination, demand |-> demand]

\* norte -> centro: a demand that may be negative; centro -> centro: a pair within
\* one zone; centro -> puerto: up to MaxDemand trips; puerto: an origin without edges
OdMatrices ==
    { << OdRow("norte", << OdEntry("centro", a) >>),
         OdRow("centro", << OdEntry("centro", 1), OdEntry("puerto", c) >>),
         OdRow("puerto", << OdEntry("norte", 1) >>) >> :
      a \in {-1, 1}, c \in 0..MaxDemand }

\* scale: -0.5, 0, 0.5, 1, 1.5
Scales == {-1, 0, 1, 2, 3}

\* lines 173-202: the call up to the first vehicle, or up to the exception
SpawnFromOdMatrixCall ==
    /\ pc = "idle" /\ raised = "none"
    /\ \E od_matrix \in OdMatrices, scale2 \in Scales, random_seed \in {None, Some(1)},
          max_attempts \in 1..MaxAttempts :
        LET requests == IF ScaleIsRejected(scale2) THEN <<>>
                        ELSE SpawnRequests(graph, SpawnZones, od_matrix, scale2)
        IN  /\ vehicle_counter + Len(requests) <= MaxVehicles
            /\ rng' = (IF random_seed # None THEN Seed(random_seed[1]) ELSE rng)
            /\ frame' = [od_matrix |-> od_matrix, scale2 |-> scale2,
                         random_seed |-> random_seed, max_attempts |-> max_attempts,
                         entry |-> [vehicles |-> vehicles,
                                    vehicle_counter |-> vehicle_counter,
                                    edge_occupation |-> edge_occupation, rng |-> rng],
                         requests |-> requests, attempts |-> 0, total_added |-> 0,
                         tries |-> <<>>, created |-> <<>>]
            /\ IF ScaleIsRejected(scale2)
               THEN raised' = "ValueError" /\ pc' = pc
               ELSE raised' = raised /\ pc' = "spawn_from_od_matrix"
    /\ UNCHANGED <<config, stats, vehicles, vehicle_counter, edge_occupation, idx,
                   step_entry, ret, halted, step_draws, twin>>

\* lines 205-223: one iteration of the while loop for the vehicle served, and
\* lines 222-223 when it was the last. tries lists the add_vehicle calls made for
\* this vehicle, created the vehicles this call has created.
SpawnAttempt ==
    /\ pc = "spawn_from_od_matrix" /\ raised = "none"
    /\ frame.requests # <<>>
    /\ LET request == Head(frame.requests)
       IN  \E selected_edge \in Range(request.origin_edges), initial_velocity \in 0..v_max :
           \E position \in ResolvePosition(graph, selected_edge, None) :
            LET first == AddVehicle(vehicles, edge_occupation, vehicle_counter, v_max,
                                    selected_edge, 0, initial_velocity,
                                    request.destination)
                second == AddVehicle(vehicles, edge_occupation, vehicle_counter, v_max,
                                     selected_edge, position, initial_velocity,
                                     request.destination)
                r == IF first.ret = None THEN second ELSE first
                made == IF first.ret = None
                        THEN << [edge |-> selected_edge, position |-> 0],
                                [edge |-> selected_edge, position |-> position] >>
                        ELSE << [edge |-> selected_edge, position |-> 0] >>
                attempts == frame.attempts + 1
                goes_on == LoopGoesOn(attempts, frame.max_attempts, r.ret)
            IN  /\ vehicles' = r.vehicles
                /\ edge_occupation' = r.edge_occupation
                /\ vehicle_counter' = r.vehicle_counter
                /\ frame' = [frame EXCEPT
                       !.tries = (IF frame.attempts = 0 THEN <<>> ELSE @) \o made,
                       !.attempts = IF goes_on THEN attempts ELSE 0,
                       !.requests = IF goes_on THEN @ ELSE Tail(@),
                       !.total_added = IF goes_on THEN @ ELSE TotalAdded(@, r.ret),
                       !.created = IF r.ret = None THEN @
                                   ELSE Append(@, [id |-> r.ret[1],
                                                   origin |-> request.origin,
                                                   destination |-> request.destination,
                                                   demand |-> request.demand])]
    /\ rng' = Draw(rng)
    /\ UNCHANGED <<config, stats, pc, idx, step_entry, ret, raised, halted, step_draws, twin>>

\* line 224
SpawnFromOdMatrixReturn ==
    /\ pc = "spawn_from_od_matrix" /\ raised = "none"
    /\ frame.requests = <<>>
    /\ pc' = "idle"
    /\ ret' = Returned("spawn_from_od_matrix", Some(frame.total_added))
    /\ UNCHANGED <<config, stats, vehicles, vehicle_counter, edge_occupation, idx,
                   frame, step_entry, raised, rng, halted, step_draws, twin>>

-----------------------------------------------------------------------------
(* gravity_matrix of src/generador_od.py. The floats are kept as exact fractions *)
(* [num, den] in lowest terms; beta is in units of ln 2, so that                  *)
(* exp(-beta * cost) is 1 / 2^(beta * cost); gamma is a whole number.             *)

Abs(n) == IF n < 0 THEN -n ELSE n

RECURSIVE GCD(_, _)
GCD(a, b) == IF b = 0 THEN a ELSE GCD(b, a % b)

RECURSIVE Power(_, _)
Power(base, exponent) == IF exponent <= 0 THEN 1 ELSE base * Power(base, exponent - 1)

Rat(n, d) ==
    LET g == GCD(Abs(n), Abs(d))
        sign == IF d < 0 THEN -1 ELSE 1
    IN  [num |-> sign * (n \div g), den |-> sign * (d \div g)]
Whole(n) == [num |-> n, den |-> 1]
RatAdd(x, y) == Rat(x.num * y.den + y.num * x.den, x.den * y.den)
RatMul(x, y) == Rat(x.num * y.num, x.den * y.den)
RatDiv(x, y) == Rat(x.num * y.den, x.den * y.num)

RECURSIVE RatSum(_, _)
RatSum(f, S) ==
    IF S = {} THEN Whole(0)
    ELSE LET x == CHOOSE y \in S : TRUE IN RatAdd(f[x], RatSum(f, S \ {x}))

\* math.inf, the cost compute_zone_costs gives when no node of the zone is reached:
\* a number above every finite cost of the model
Infinity == 1000

\* lines 182-190: impedance raises ValueError when the cost is finite and not negative
\* and the friction is neither of the two it knows
ImpedanceRaises(cost, friction) ==
    /\ ~(cost = Infinity \/ cost < 0)
    /\ friction.name \notin {"exponential", "power"}

\* impedance(cost, friction, beta, gamma), where it returns
Impedance(cost, friction) ==
    IF cost = Infinity \/ cost < 0 THEN Whole(0)
    ELSE IF friction.name = "exponential" THEN Rat(1, Power(2, friction.beta * cost))
    ELSE IF cost = 0 THEN Whole(0)
    ELSE Rat(1, Power(cost, friction.gamma))

\* a faulty variant: no destination is skipped, whatever allow_self_trips says
ConsideredAll(zones, origin, allow_self_trips) == zones

\* lines 212-213: the destinations the first loop does not skip
Considered(zones, origin, allow_self_trips) ==
    {destination \in zones : ~(destination = origin /\ ~allow_self_trips)}

\* lines 214-216
Weight(in, origin, destination) ==
    RatMul(Whole(in.attractions[destination]),
           Impedance(in.costs[origin][destination], in.friction))

\* a faulty variant: the weights are kept whatever their sign
WeightsOfAnySign(in, origin) ==
    [destination \in Considered(in.zones, origin, in.allow_self_trips) |->
        Weight(in, origin, destination)]

\* lines 210-219: the dict weights, which holds the positive weights only
Weights(in, origin) ==
    LET kept == {destination \in Considered(in.zones, origin, in.allow_self_trips) :
                    Weight(in, origin, destination).num > 0}
    IN  [destination \in kept |-> Weight(in, origin, destination)]

\* a faulty variant: the weights are not divided by their sum
GravityRowOfWeights(in, origin) ==
    LET weights == Weights(in, origin)
    IN  [destination \in in.zones |->
            IF destination \in DOMAIN weights
            THEN RatMul(Whole(in.productions[origin]), weights[destination])
            ELSE Whole(0)]

\* lines 209-229 for one origin
GravityRow(in, origin) ==
    LET weights == Weights(in, origin)
        total_weight == RatSum(weights, DOMAIN weights)
    IN  [destination \in in.zones |->
            IF total_weight.num = 0 THEN Whole(0)
            ELSE IF destination \notin Considered(in.zones, origin, in.allow_self_trips)
            THEN Whole(0)
            ELSE LET contribution == IF destination \in DOMAIN weights
                                     THEN weights[destination] ELSE Whole(0)
                     share == RatDiv(contribution, total_weight)
                 IN  RatMul(Whole(in.productions[origin]), share)]

GravityMatrix(in) == [origin \in in.zones |-> GravityRow(in, origin)]

\* lines 209-213: impedance is called for every pair the first loop does not skip,
\* and an exception it raises ends gravity_matrix
GravityMatrixRaises(in) ==
    \E origin \in in.zones :
        \E destination \in Considered(in.zones, origin, in.allow_self_trips) :
            ImpedanceRaises(in.costs[origin][destination], in.friction)

\* the inputs of the runs: two zones, factors from -1 to MaxFactor, costs that are
\* negative, zero, positive or infinite between the zones and 0 within a zone
GravityZones == {"norte", "centro"}
MaxFactor == 2
MaxCost == 2
Frictions ==
    { [name |-> "exponential", beta |-> 1, gamma |-> 2],
      [name |-> "power", beta |-> 1, gamma |-> 1],
      [name |-> "power", beta |-> 1, gamma |-> 2],
      [name |-> "linear", beta |-> 1, gamma |-> 1] }
CostsBetween == (-1..MaxCost) \cup {Infinity}

GravityInputs ==
    { [zones |-> GravityZones,
       productions |-> [norte |-> p, centro |-> 1],
       attractions |-> attractions,
       costs |-> [norte |-> [norte |-> 0, centro |-> c1],
                  centro |-> [norte |-> c2, centro |-> 0]],
       friction |-> friction,
       allow_self_trips |-> allow_self_trips] :
      p \in -1..MaxFactor, attractions \in [GravityZones -> -1..MaxFactor],
      c1 \in CostsBetween, c2 \in CostsBetween, friction \in Frictions,
      allow_self_trips \in BOOLEAN }

\* gravity_matrix is called with the inputs in frame, and returns or raises
GravityMatrixCall ==
    /\ pc = "gravity_matrix" /\ raised = "none"
    /\ IF GravityMatrixRaises(frame)
       THEN raised' = "ValueError" /\ ret' = ret /\ pc' = pc
       ELSE /\ raised' = raised
            /\ ret' = Returned("gravity_matrix", GravityMatrix(frame))
            /\ pc' = "idle"
    /\ UNCHANGED <<config, stats, vehicles, vehicle_counter, edge_occupation, idx,
                   frame, step_entry, rng, halted, step_draws, twin>>

-----------------------------------------------------------------------------
(* compute_zone_costs of src/generador_od.py. The network is a directed         *)
(* multigraph whose edges carry the weight attribute; the library call of line   *)
(* 167 returns the distance from the nearest source for the nodes it reaches.    *)

Min2(a, b) == IF a <= b THEN a ELSE b

\* the sum of two costs, one of which may be math.inf
CostAdd(a, b) == IF a = Infinity \/ b = Infinity THEN Infinity ELSE a + b

\* one round of relaxation over the edges of the network
Relax(network, dist) ==
    [v \in network.nodes |->
        Min({dist[v]} \cup {CostAdd(dist[e.u], e.weight) : e \in {x \in network.edges : x.v = v}})]

RECURSIVE Relaxed(_, _, _)
Relaxed(network, dist, rounds) ==
    IF rounds = 0 THEN dist ELSE Relaxed(network, Relax(network, dist), rounds - 1)

\* line 167: nx.multi_source_dijkstra_path_length(graph, sources, weight), the dict
\* of the reached nodes with their distance from the nearest source
MultiSourceDijkstraPathLength(network, sources) ==
    LET start == [v \in network.nodes |-> IF v \in Range(sources) THEN 0 ELSE Infinity]
        dist == Relaxed(network, start, Cardinality(network.nodes))
    IN  [v \in {x \in network.nodes : dist[x] # Infinity} |-> dist[v]]

\* line 167: the library call raises ValueError on an empty list of sources
\* (networkx >= 3.0, which setup.py requires)
MultiSourceDijkstraRaises(sources) == Len(sources) = 0

\* line 172: lengths.get(node, math.inf)
LengthsGet(lengths, node) == IF node \in DOMAIN lengths THEN lengths[node] ELSE Infinity

\* lines 170-175: the smallest length over the nodes of the destination zone
RECURSIVE MinCost(_, _, _)
MinCost(lengths, destination_nodes, i) ==
    IF i > Len(destination_nodes) THEN Infinity
    ELSE LET cost == LengthsGet(lengths, destination_nodes[i])
             later == MinCost(lengths, destination_nodes, i + 1)
         IN  Min2(cost, later)

\* lines 165-177, when no call of line 167 raises
ComputeZoneCosts(network, zones) ==
    [origin \in DOMAIN zones |->
        LET lengths == MultiSourceDijkstraPathLength(network, zones[origin])
        IN  [destination \in DOMAIN zones |-> MinCost(lengths, zones[destination], 1)]]

ComputeZoneCostsRaises(zones) ==
    \E origin \in DOMAIN zones : MultiSourceDijkstraRaises(zones[origin])

\* the inputs of the runs: four nodes, five streets each absent or of weight 0 to
\* MaxWeight (two of them parallel), and two zones of zero to two nodes
MaxWeight == 2
CostNodes == 1..4
CostStreets == << <<1, 2>>, <<1, 2>>, <<2, 3>>, <<3, 1>>, <<1, 3>> >>
Absent == -1
CostNetworks ==
    { [nodes |-> CostNodes,
       edges |-> { [u |-> CostStreets[i][1], v |-> CostStreets[i][2], key |-> i,
                    weight |-> weights[i]] :
                   i \in {j \in 1..Len(CostStreets) : weights[j] # Absent} }] :
      weights \in [1..Len(CostStreets) -> {Absent} \cup (0..MaxWeight)] }
CostZones ==
    { [norte |-> norte, centro |-> centro] :
      norte \in {<<>>, <<1>>, <<2, 1>>}, centro \in {<<>>, <<3>>, <<4, 2>>, <<1, 3>>} }

\* compute_zone_costs is called with the inputs in frame, and returns or raises
ComputeZoneCostsCall ==
    /\ pc = "compute_zone_costs" /\ raised = "none"
    /\ IF ComputeZoneCostsRaises(frame.zones)
       THEN raised' = "ValueError" /\ ret' = ret /\ pc' = pc
       ELSE /\ raised' = raised
            /\ ret' = Returned("compute_zone_costs",
                               ComputeZoneCosts(frame.network, frame.zones))
            /\ pc' = "idle"
    /\ UNCHANGED <<config, stats, vehicles, vehicle_counter, edge_occupation, idx,
                   frame, step_entry, rng, halted, step_draws, twin>>

-----------------------------------------------------------------------------
(* step(): its four phases and the statistics, in program order *)

VehicleIds == DOMAIN vehicles

\* a faulty variant: acceleration without the v_max limit
AccelerateUncapped(veh) == [veh EXCEPT !.velocity = @ + 1]

\* a faulty variant: only the vehicles without a destination zone accelerate
AccelerateUntagged(veh) ==
    IF veh.velocity < veh.v_max /\ veh.destination_zone = NoZone
    THEN [veh EXCEPT !.velocity = @ + 1] ELSE veh

\* lines 340-343
Accelerate(veh) ==
    IF veh.velocity < veh.v_max THEN [veh EXCEPT !.velocity = @ + 1] ELSE veh

\* a faulty variant: no vehicle brakes
BrakeNever(g, occ, vmax, veh) == veh

\* a faulty variant: braking only when the velocity exceeds the distance
BrakeStrictlyAbove(g, occ, vmax, veh) ==
    LET distance == GetDistanceToNextVehicle(g, occ, vmax, veh)
    IN  IF veh.velocity > distance
        THEN [veh EXCEPT !.velocity = Max2(0, distance - 1)]
        ELSE veh

\* lines 346-349
Brake(g, occ, vmax, veh) ==
    LET distance == GetDistanceToNextVehicle(g, occ, vmax, veh)
    IN  IF veh.velocity >= distance
        THEN [veh EXCEPT !.velocity = Max2(0, distance - 1)]
        ELSE veh

\* random.random() in quarters of the unit interval: 1 is a draw below 0.5, 3 one above
RandomDraws == {1, 3}

\* a faulty variant: the slow-down does not look at the velocity
RandomizeAnyVelocity(pslow, veh, draw) ==
    IF draw < pslow THEN [veh EXCEPT !.velocity = @ - 1] ELSE veh

\* lines 352-354
Randomize(pslow, veh, draw) ==
    IF veh.velocity > 0 /\ draw < pslow THEN [veh EXCEPT !.velocity = @ - 1] ELSE veh

\* an entry of the history of draws: the value random.random() returned (line 353),
\* or the edge random.choice returned (line 313)
RandomDrawn(value) == [call |-> "random", value |-> value, edge |-> None]
ChoiceDrawn(edge) == [call |-> "choice", value |-> 0, edge |-> edge]

\* lines 352-354: random.random() is called for the vehicles that move, one after the
\* other in creation order; the others end the condition before the call
RECURSIVE DrawsOfRandomization(_, _, _)
DrawsOfRandomization(vehs, draws, counter) ==
    IF counter = 0 THEN <<>>
    ELSE LET earlier == DrawsOfRandomization(vehs, draws, counter - 1)
         IN  IF vehs[counter - 1].velocity > 0
             THEN Append(earlier, RandomDrawn(draws[counter - 1]))
             ELSE earlier

\* a faulty variant: the loop of phase 4 takes the vehicles in reverse creation order
MovedAtReversed(counter, i) == {counter - 1 - i}

\* a faulty variant: the loop of phase 4 takes the vehicles from either end
MovedAtEitherEnd(counter, i) == {i, counter - 1 - i}

\* line 357: the vehicle the loop of phase 4 visits in its iteration i; the dict
\* keeps the vehicles in creation order, which is the order of their ids
MovedAt(counter, i) == {i}

\* the mean of the velocities, as the pair of their sum and their number
MeanVelocity(vehs) ==
    [sum |-> SumOver([id \in DOMAIN vehs |-> vehs[id].velocity], DOMAIN vehs),
     n |-> Cardinality(DOMAIN vehs)]

\* step() is entered (at most limit times in a run) and runs phase 1
StepAccelerateWithin(limit, entry) ==
    /\ pc = "idle" /\ raised = "none"
    /\ time_step < limit
    /\ step_entry' = entry
    /\ vehicles' = [id \in VehicleIds |-> Accelerate(vehicles[id])]
    /\ pc' = "braking"
    /\ UNCHANGED <<config, stats, vehicle_counter, edge_occupation, idx, frame, ret, raised,
                   rng, halted, step_draws, twin>>

StepAccelerate == StepAccelerateWithin(MaxSteps, NoEntry)

StepAccelerateRun ==
    StepAccelerateWithin(MaxRunSteps,
                         [vehicles |-> vehicles, edge_occupation |-> edge_occupation])

StepBrake ==
    /\ pc = "braking" /\ raised = "none"
    /\ vehicles' = [id \in VehicleIds |->
                       Brake(graph, edge_occupation, v_max, vehicles[id])]
    /\ pc' = "randomization"
    /\ UNCHANGED <<config, stats, vehicle_counter, edge_occupation, idx, frame,
                   step_entry, ret, raised,
                   rng, halted, step_draws, twin>>

StepRandomize ==
    /\ pc = "randomization" /\ raised = "none"
    /\ \E draws \in [VehicleIds -> RandomDraws] :
        /\ vehicles' = [id \in VehicleIds |-> Randomize(p_slow, vehicles[id], draws[id])]
        /\ step_draws' = step_draws \o DrawsOfRandomization(vehicles, draws, vehicle_counter)
    /\ rng' = (IF \E id \in VehicleIds : vehicles[id].velocity > 0 THEN Draw(rng) ELSE rng)
    /\ pc' = "movement"
    /\ idx' = 0
    /\ UNCHANGED <<config, stats, vehicle_counter, edge_occupation, frame, step_entry,
                   ret, raised,
                   halted, twin>>

\* lines 357-358: one iteration, over the vehicles in creation order
StepMove ==
    /\ pc = "movement" /\ raised = "none"
    /\ idx < vehicle_counter
    /\ \E id \in MovedAt(vehicle_counter, idx) :
       \E next_edge \in NextEdgeChoices(graph, vehicles[id]) :
        LET r == MoveVehicle(graph, vehicles, edge_occupation, id, next_edge)
        IN  /\ vehicles' = r.vehicles
            /\ edge_occupation' = r.edge_occupation
            /\ ret' = Returned("_move_vehicle", r.ret)
            /\ raised' = r.raised
            /\ rng' = (IF next_edge # None THEN Draw(rng) ELSE rng)
            /\ step_draws' = (IF next_edge # None THEN Append(step_draws, ChoiceDrawn(next_edge))
                              ELSE step_draws)
            /\ halted' = (IF OverflowsDeadEnd(graph, vehicles[id]) /\ r.raised = "none"
                          THEN halted \cup {id} ELSE halted)
    /\ idx' = idx + 1
    /\ UNCHANGED <<config, stats, vehicle_counter, pc, frame, step_entry, twin>>

\* lines 361-364, and the return of step()
StepStatistics ==
    /\ pc = "movement" /\ raised = "none"
    /\ idx >= vehicle_counter
    /\ time_step' = time_step + 1
    /\ avg_velocities' =
          IF VehicleIds # {} THEN Append(avg_velocities, MeanVelocity(vehicles))
          ELSE avg_velocities
    /\ pc' = "idle"
    /\ idx' = 0
    /\ step_entry' = NoEntry
    /\ ret' = Returned("step", None)
    /\ UNCHANGED <<config, vehicles, vehicle_counter, edge_occupation, frame, raised,
                   rng, halted, step_draws, twin>>

-----------------------------------------------------------------------------
(* Specifications *)

\* add_vehicle and step() in any order, on the branching network
Init == InitWith(NetBranch, 2, 2)

Next ==
    \/ AddVehicleCall
    \/ StepAccelerate
    \/ StepBrake
    \/ StepRandomize
    \/ StepMove
    \/ StepStatistics

Spec == Init /\ [][Next]_vars

\* add_vehicle with destination tags and step() in any order, on the ring
InitAdd == InitWith(NetRing, 2, 2)

NextAdd ==
    \/ AddVehicleTagged
    \/ StepAccelerate
    \/ StepBrake
    \/ StepRandomize
    \/ StepMove
    \/ StepStatistics

SpecAdd == InitAdd /\ [][NextAdd]_vars

\* add_vehicle with any position and velocity, and step(), on the branching network
NextArgs ==
    \/ AddVehicleCall
    \/ AddVehicleUnchecked
    \/ StepAccelerate
    \/ StepBrake
    \/ StepRandomize
    \/ StepMove
    \/ StepStatistics

SpecArgs == Init /\ [][NextArgs]_vars

\* initialize_vehicles, then step() only, on the network with a loop
InitLoop == InitWith(NetLoop, 2, 2)

NextInit ==
    \/ (time_step = 0 /\ InitializeVehiclesCall)
    \/ InitializeVehiclesAttempt
    \/ InitializeVehiclesReturn
    \/ StepAccelerateRun
    \/ StepBrake
    \/ StepRandomize
    \/ StepMove
    \/ StepStatistics

SpecInit == InitLoop /\ [][NextInit]_vars

-----------------------------------------------------------------------------
(* Scenario runs: the network is populated by add_vehicle, then only step() runs *)

\* one street of 10 cells that ends in a dead end
NetStreet == << RawEdge("A", "B", 0, 150) >>

\* a long street (24 cells) that ends in a dead end
NetLongStreet == << RawEdge("A", "B", 0, 360) >>

Street == <<"A", "B", 0>>

\* the state after add_vehicle(edge, position, velocity) on the state s
AfterAddVehicle(s, vmax, edge, position, velocity) ==
    AddVehicle(s.vehicles, s.edge_occupation, s.vehicle_counter, vmax,
               edge, position, velocity, NoZone)

EmptyState(raw) ==
    [vehicles |-> EmptyDict, edge_occupation |-> [e \in Edges(raw) |-> EmptyDict],
     vehicle_counter |-> 0]

InitPopulated(raw, vmax, pslow, s) ==
    /\ graph = DiscretizeEdges(raw)
    /\ v_max = vmax
    /\ p_slow = pslow
    /\ vehicles = s.vehicles
    /\ vehicle_counter = s.vehicle_counter
    /\ edge_occupation = s.edge_occupation
    /\ time_step = 0
    /\ avg_velocities = <<>>
    /\ pc = "idle"
    /\ idx = 0
    /\ frame = NoFrame
    /\ step_entry = NoEntry
    /\ ret = Returned("add_vehicle", s.ret)
    /\ raised = "none"
    /\ rng = (IF s.vehicle_counter > 0 THEN Draw(Unseeded) ELSE Unseeded)
    /\ halted = {}
    /\ step_draws = <<>>
    /\ twin = None

NextRun ==
    \/ StepAccelerateRun
    \/ StepBrake
    \/ StepRandomize
    \/ StepMove
    \/ StepStatistics

\* Scenario A: one vehicle alone on the long street, v_max = 5, p_slow = 0
VMaxScenario == 5

InitA ==
    \E position \in 0..(NumCellsOfLength(NetLongStreet[1].length) - 1),
       velocity \in 0..VMaxScenario :
        InitPopulated(NetLongStreet, VMaxScenario, 0,
                      AfterAddVehicle(EmptyState(NetLongStreet), VMaxScenario,
                                      Street, position, velocity))

SpecA == InitA /\ [][NextRun]_vars

\* Scenario B: two vehicles on the 10-cell street, one exactly 1 cell behind the
\* other, created in either order, v_max = 5, any p_slow
InitB ==
    \E position \in 0..(NumCellsOfLength(NetStreet[1].length) - 2),
       v_trailing \in 0..VMaxScenario, v_leader \in 0..VMaxScenario,
       trailing_first \in BOOLEAN, pslow \in {0, 2, 4} :
        LET first == IF trailing_first THEN <<position, v_trailing>>
                     ELSE <<position + 1, v_leader>>
            second == IF trailing_first THEN <<position + 1, v_leader>>
                      ELSE <<position, v_trailing>>
            s1 == AfterAddVehicle(EmptyState(NetStreet), VMaxScenario,
                                  Street, first[1], first[2])
        IN  InitPopulated(NetStreet, VMaxScenario, pslow,
                          AfterAddVehicle(s1, VMaxScenario, Street, second[1], second[2]))

SpecB == InitB /\ [][NextRun]_vars

\* Scenario E: a vehicle on the dead-end street U->C of the network with a loop,
\* behind two vehicles standing anywhere, then only step() runs
InitE ==
    \E i0 \in 1..Len(NetLoop), i1 \in 1..Len(NetLoop) :
    \E p0 \in 0..(NumCellsOfLength(NetLoop[i0].length) - 1),
       p1 \in 0..(NumCellsOfLength(NetLoop[i1].length) - 1),
       p2 \in 0..(NumCellsOfLength(NetLoop[2].length) - 1), velocity \in 0..2 :
        LET s1 == AfterAddVehicle(EmptyState(NetLoop), 2, NetLoop[i0].edge, p0, 0)
            s2 == AfterAddVehicle(s1, 2, NetLoop[i1].edge, p1, 0)
            s3 == AfterAddVehicle(s2, 2, NetLoop[2].edge, p2, velocity)
        IN  /\ s2.ret # None /\ s3.ret # None
            /\ InitPopulated(NetLoop, 2, 2, s3)

SpecE == InitE /\ [][NextRun]_vars

\* the phases of step() on the branching network: no vehicle, one or two, on any
\* cells, created with any velocity from MaxExcess below 0 to MaxExcess above v_max
\* (add_vehicle takes whatever velocity it is given), then only step() runs
MaxExcess == 2
CreatedVelocities == (0 - MaxExcess)..(2 + MaxExcess)
CellsOf(raw) ==
    UNION { {<<raw[i].edge, position>> :
                position \in 0..(NumCellsOfLength(raw[i].length) - 1)} :
            i \in 1..Len(raw) }

InitPhases ==
    \E population \in 0..2, c0 \in CellsOf(NetBranch), c1 \in CellsOf(NetBranch),
       w0 \in CreatedVelocities, w1 \in CreatedVelocities, pslow \in {0, 2} :
        LET s0 == [vehicles |-> EmptyDict, vehicle_counter |-> 0, ret |-> None,
                   edge_occupation |-> EmptyState(NetBranch).edge_occupation]
            s1 == AfterAddVehicle(s0, 2, c0[1], c0[2], w0)
            s2 == AfterAddVehicle(s1, 2, c1[1], c1[2], w1)
        IN  /\ population = 2 => s2.ret # None
            /\ InitPopulated(NetBranch, 2, pslow,
                             IF population = 0 THEN s0
                             ELSE IF population = 1 THEN s1 ELSE s2)

SpecPhases == InitPhases /\ [][NextRun]_vars

\* _get_distance_to_next_vehicle asked for the vehicles of an avenue of 6 cells that
\* leads into a street of 2 cells, or of the branching network: up to
\* MaxVehicles + 1 vehicles, each put by
\* add_vehicle on a position from -1 to num_cells (add_vehicle takes whatever
\* position it is given)
NetAvenue == << RawEdge("A", "B", 0, 90), RawEdge("B", "C", 0, 30) >>

PositionsGiven(raw) ==
    UNION { {<<raw[i].edge, position>> :
                position \in -1..NumCellsOfLength(raw[i].length)} :
            i \in 1..Len(raw) }

RECURSIVE Populations(_, _, _)
Populations(raw, vmax, n) ==
    IF n = 0
    THEN { [vehicles |-> EmptyDict, vehicle_counter |-> 0, ret |-> None,
            edge_occupation |-> EmptyState(raw).edge_occupation] }
    ELSE LET fewer == Populations(raw, vmax, n - 1)
         IN  fewer \cup
             { AfterAddVehicle(s, vmax, c[1], c[2], 0) :
               s \in {t \in fewer : t.vehicle_counter = n - 1}, c \in PositionsGiven(raw) }

InitGap ==
    \E raw \in {NetAvenue, NetBranch} :
    \E s \in Populations(raw, 2, MaxVehicles + 1) :
        /\ s.vehicle_counter > 0
        /\ InitPopulated(raw, 2, 2, s)

\* lines 226-267: the distance is computed for one of the vehicles, as braking does
GetDistanceToNextVehicleCall ==
    /\ pc = "idle" /\ raised = "none"
    /\ \E id \in VehicleIds :
           ret' = Returned("_get_distance_to_next_vehicle",
                           [vehicle |-> id,
                            distance |-> GetDistanceToNextVehicle(graph, edge_occupation,
                                                                  v_max, vehicles[id])])
    /\ UNCHANGED <<config, stats, vehicles, vehicle_counter, edge_occupation, pc, idx,
                   frame, step_entry, raised, rng, halted, step_draws, twin>>

NextGap == GetDistanceToNextVehicleCall

SpecGap == InitGap /\ [][NextGap]_vars

\* two simulations built with the same arguments and populated alike, each stepped on
\* its own: one runs while the other rests, and they change places between calls
MaxTwinSteps == 2

\* the fields of the TrafficSimulation that runs, and the history kept with them
Simulation ==
    [vehicles |-> vehicles, vehicle_counter |-> vehicle_counter,
     edge_occupation |-> edge_occupation, time_step |-> time_step,
     avg_velocities |-> avg_velocities, pc |-> pc, idx |-> idx, ret |-> ret,
     raised |-> raised, halted |-> halted, step_draws |-> step_draws]

AtRest(s) == s.pc = "idle" \/ s.raised # "none"

\* the simulation at rest is the one that runs next
Switch ==
    /\ twin # None
    /\ AtRest(Simulation)
    /\ twin' = Some(Simulation)
    /\ vehicles' = twin[1].vehicles
    /\ vehicle_counter' = twin[1].vehicle_counter
    /\ edge_occupation' = twin[1].edge_occupation
    /\ time_step' = twin[1].time_step
    /\ avg_velocities' = twin[1].avg_velocities
    /\ pc' = twin[1].pc
    /\ idx' = twin[1].idx
    /\ ret' = twin[1].ret
    /\ raised' = twin[1].raised
    /\ halted' = twin[1].halted
    /\ step_draws' = twin[1].step_draws
    /\ UNCHANGED <<config, frame, step_entry, rng>>

InitTwin ==
    \E i1 \in 1..Len(NetBranch) :
    \E p1 \in 0..(NumCellsOfLength(NetBranch[i1].length) - 1),
       v0 \in 0..2, v1 \in 0..2 :
        LET s1 == AfterAddVehicle(EmptyState(NetBranch), 2, NetBranch[1].edge, 0, v0)
            s2 == AfterAddVehicle(s1, 2, NetBranch[i1].edge, p1, v1)
        IN  /\ s2.ret # None
            /\ graph = DiscretizeEdges(NetBranch)
            /\ v_max = 2
            /\ p_slow = 2
            /\ vehicles = s2.vehicles
            /\ vehicle_counter = s2.vehicle_counter
            /\ edge_occupation = s2.edge_occupation
            /\ time_step = 0
            /\ avg_velocities = <<>>
            /\ pc = "idle"
            /\ idx = 0
            /\ frame = NoFrame
            /\ step_entry = NoEntry
            /\ ret = Returned("add_vehicle", s2.ret)
            /\ raised = "none"
            /\ rng = Draw(Unseeded)
            /\ halted = {}
            /\ step_draws = <<>>
            /\ twin = Some(Simulation)

NextTwin ==
    \/ StepAccelerateWithin(MaxTwinSteps, NoEntry)
    \/ StepBrake
    \/ StepRandomize
    \/ StepMove
    \/ StepStatistics
    \/ Switch

SpecTwin == InitTwin /\ [][NextTwin]_vars

\* one call of spawn_from_od_matrix on the branching network, which is empty or
\* holds one vehicle that add_vehicle has placed
InitSpawn ==
    \/ Init
    \/ \E i \in 1..Len(NetBranch) :
       \E position \in 0..(NumCellsOfLength(NetBranch[i].length) - 1) :
           InitPopulated(NetBranch, 2, 2,
                         AfterAddVehicle(EmptyState(NetBranch), 2,
                                         NetBranch[i].edge, position, 0))

NextSpawn ==
    \/ (ret.op # "spawn_from_od_matrix" /\ SpawnFromOdMatrixCall)
    \/ SpawnAttempt
    \/ SpawnFromOdMatrixReturn

SpecSpawn == InitSpawn /\ [][NextSpawn]_vars

\* gravity_matrix on every input of GravityInputs; no simulation takes part
InitGravity ==
    /\ graph = <<>>
    /\ v_max = 0
    /\ p_slow = 0
    /\ vehicles = EmptyDict
    /\ vehicle_counter = 0
    /\ edge_occupation = EmptyDict
    /\ time_step = 0
    /\ avg_velocities = <<>>
    /\ pc = "gravity_matrix"
    /\ idx = 0
    /\ frame \in GravityInputs
    /\ step_entry = NoEntry
    /\ ret = Returned("merge_factors", None)
    /\ raised = "none"
    /\ rng = Unseeded
    /\ halted = {}
    /\ step_draws = <<>>
    /\ twin = None

\* one call of compute_zone_costs on a validated network
InitCosts ==
    /\ graph = <<>>
    /\ v_max = 0
    /\ p_slow = 0
    /\ vehicles = EmptyDict
    /\ vehicle_counter = 0
    /\ edge_occupation = EmptyDict
    /\ time_step = 0
    /\ avg_velocities = <<>>
    /\ pc = "compute_zone_costs"
    /\ idx = 0
    /\ frame \in {[network |-> network, zones |-> zones] :
                    network \in CostNetworks, zones \in CostZones}
    /\ step_entry = NoEntry
    /\ ret = Returned("validate_zone_nodes", None)
    /\ raised = "none"
    /\ rng = Unseeded
    /\ halted = {}
    /\ step_draws = <<>>
    /\ twin = None

NextCosts == ComputeZoneCostsCall

SpecCosts == InitCosts /\ [][NextCosts]_vars

\* _discretize_edges run on a loaded network, and run again on its own result
MaxLength == 31
MaxDiscretizations == 2
RawLengths == {NoLength} \cup (0..MaxLength)
RawNetworks ==
    { << [edge |-> <<"A", "B", 0>>, length |-> l1],
         [edge |-> <<"B", "C", 0>>, length |-> l2] >> :
      l1 \in RawLengths, l2 \in RawLengths }

\* frame.results: history, the network as each run of _discretize_edges left it
InitDiscretize ==
    /\ graph \in RawNetworks
    /\ v_max = 2
    /\ p_slow = 2
    /\ vehicles = EmptyDict
    /\ vehicle_counter = 0
    /\ edge_occupation = EmptyDict
    /\ time_step = 0
    /\ avg_velocities = <<>>
    /\ pc = "_discretize_edges"
    /\ idx = 0
    /\ frame = [raw |-> graph, results |-> <<>>]
    /\ step_entry = NoEntry
    /\ ret = Returned("load_graphml", None)
    /\ raised = "none"
    /\ rng = Unseeded
    /\ halted = {}
    /\ step_draws = <<>>
    /\ twin = None

\* lines 85-103: one run of _discretize_edges over every edge of self.graph
DiscretizeEdgesCall ==
    /\ pc = "_discretize_edges" /\ raised = "none"
    /\ idx < MaxDiscretizations
    /\ graph' = DiscretizeEdges(graph)
    /\ idx' = idx + 1
    /\ frame' = [frame EXCEPT !.results = Append(@, graph')]
    /\ ret' = Returned("_discretize_edges", None)
    /\ UNCHANGED <<v_max, p_slow, stats, vehicles, vehicle_counter, edge_occupation, pc,
                   step_entry, raised, rng, halted, step_draws, twin>>

NextDiscretize == DiscretizeEdgesCall

SpecDiscretize == InitDiscretize /\ [][NextDiscretize]_vars

NextGravity == GravityMatrixCall

SpecGravity == InitGravity /\ [][NextGravity]_vars

-----------------------------------------------------------------------------
(* Properties *)

OccupiedSlots(occ) == UNION {{<<e, p>> : p \in DOMAIN occ[e]} : e \in DOMAIN occ}

\* the movement phase of the running step() has moved every vehicle
MovementDone == pc = "movement" /\ idx >= vehicle_counter

\* C1: no two distinct vehicles are on the same cell of the same edge.
C1_NoTwoVehiclesShareCell ==
    \A a \in VehicleIds : \A b \in VehicleIds :
        a # b => ~(/\ vehicles[a].edge = vehicles[b].edge
                   /\ vehicles[a].position = vehicles[b].position)

\* C2: the occupancy index and the registry agree: every vehicle is the entry of
\* its own cell, and every entry names a vehicle that is on that cell.
C2_OccupancyAgreesWithRegistry ==
    /\ \A id \in VehicleIds :
          /\ vehicles[id].position \in DOMAIN edge_occupation[vehicles[id].edge]
          /\ edge_occupation[vehicles[id].edge][vehicles[id].position] = id
    /\ \A slot \in OccupiedSlots(edge_occupation) :
          LET id == edge_occupation[slot[1]][slot[2]]
          IN  /\ id \in VehicleIds
              /\ vehicles[id].edge = slot[1]
              /\ vehicles[id].position = slot[2]

\* C3: after initialize_vehicles no step() raises: every removal of a vehicle's
\* old cell from the occupancy index finds the cell present.
C3_StepNeverRaises == raised = "none"

\* C4: every vehicle's velocity is within 0..v_max, whatever velocity add_vehicle
\* was given, after add_vehicle and after every phase of step().
C4_VelocityWithinLimit ==
    \A id \in VehicleIds : vehicles[id].velocity \in 0..v_max

\* C5: every vehicle's position is a cell of the edge the vehicle is on.
C5_PositionWithinEdge ==
    \A id \in VehicleIds :
        vehicles[id].position \in 0..(NumCells(graph, vehicles[id].edge) - 1)

\* C6: before and after every step() the number of occupied cells of the occupancy
\* index is the number of vehicles, and the vehicles are those created so far.
C6_OccupiedCellsCountVehicles ==
    pc = "idle" =>
        /\ VehicleIds = 0..(vehicle_counter - 1)
        /\ Cardinality(OccupiedSlots(edge_occupation)) = Cardinality(VehicleIds)

-----------------------------------------------------------------------------
(* add_vehicle, C7 and C8 *)

\* the arguments a caller can pass, in and out of the documented ranges
AnyPosition(e) == -1..NumCells(graph, e)
AnyVelocity == -1..(v_max + 1)

\* what add_vehicle(e, p, v, d) would return and leave behind in the current state
AddVehicleHere(e, p, v, d) ==
    AddVehicle(vehicles, edge_occupation, vehicle_counter, v_max, e, p, v, d)

SameSlots(occ1, occ2) ==
    /\ OccupiedSlots(occ1) = OccupiedSlots(occ2)
    /\ \A slot \in OccupiedSlots(occ1) : occ1[slot[1]][slot[2]] = occ2[slot[1]][slot[2]]

C7_Contract ==
    \A e \in Edges(graph), d \in Destinations :
    \A p \in AnyPosition(e), v \in AnyVelocity :
        LET r == AddVehicleHere(e, p, v, d)
        IN  /\ (r.ret = None) <=> (p \in DOMAIN edge_occupation[e])
            /\ r.ret = None =>
                  /\ r.vehicles = vehicles
                  /\ r.vehicle_counter = vehicle_counter
                  /\ SameSlots(r.edge_occupation, edge_occupation)

\* between two idle states only add_vehicle runs
C7_Transition ==
    /\ (pc = "idle" /\ pc' = "idle" /\ ret'.op = "add_vehicle" /\ ret'.value = None) =>
          /\ vehicles' = vehicles
          /\ vehicle_counter' = vehicle_counter
          /\ SameSlots(edge_occupation', edge_occupation)
          /\ raised' = "none"
    /\ vehicle_counter' # vehicle_counter =>
          /\ ret'.op = "add_vehicle" /\ ret'.value # None
          /\ LET new == vehicles'[ret'.value[1]]
             IN  new.position \notin DOMAIN edge_occupation[new.edge]

\* C7: add_vehicle returns None exactly when the resolved (edge, position) is
\* occupied, raises nothing, and a call that returns None leaves the registry, the
\* id counter and every occupied cell as they were.
C7_AddVehicleFailsOnlyOnOccupiedCell == []C7_Contract /\ [][C7_Transition]_vars

\* a call of add_vehicle has just found its cell occupied, after a step() has run
C7_Witness ==
    /\ pc = "idle" /\ time_step > 0
    /\ ret.op = "add_vehicle" /\ ret.value = None
    /\ VehicleIds # {}

C8_Contract ==
    /\ VehicleIds = 0..(vehicle_counter - 1)
    /\ \A e \in Edges(graph), d \in Destinations :
       \A p \in AnyPosition(e), v \in AnyVelocity :
          LET r == AddVehicleHere(e, p, v, d)
              id == vehicle_counter
          IN  p \notin DOMAIN edge_occupation[e] =>
                /\ r.ret = Some(id)
                /\ id \notin VehicleIds
                /\ r.vehicle_counter = id + 1
                /\ DOMAIN r.vehicles = VehicleIds \cup {id}
                /\ r.vehicles[id].id = id
                /\ r.vehicles[id].edge = e
                /\ r.vehicles[id].position = p
                /\ r.vehicles[id].velocity = v
                /\ r.vehicles[id].destination_zone = d
                /\ \A other \in VehicleIds : r.vehicles[other] = vehicles[other]
                /\ OccupiedSlots(r.edge_occupation) =
                      OccupiedSlots(edge_occupation) \cup {<<e, p>>}
                /\ r.edge_occupation[e][p] = id
                /\ \A slot \in OccupiedSlots(edge_occupation) :
                      r.edge_occupation[slot[1]][slot[2]] = edge_occupation[slot[1]][slot[2]]

C8_Transition ==
    vehicle_counter' # vehicle_counter =>
        LET id == vehicle_counter
        IN  /\ ret' = Returned("add_vehicle", Some(id))
            /\ id \notin VehicleIds
            /\ vehicle_counter' = id + 1
            /\ DOMAIN vehicles' = VehicleIds \cup {id}
            /\ \A other \in VehicleIds : vehicles'[other] = vehicles[other]
            /\ OccupiedSlots(edge_occupation') =
                  OccupiedSlots(edge_occupation)
                      \cup {<<vehicles'[id].edge, vehicles'[id].position>>}
            /\ <<vehicles'[id].edge, vehicles'[id].position>>
                  \notin OccupiedSlots(edge_occupation)
            /\ edge_occupation'[vehicles'[id].edge][vehicles'[id].position] = id
            /\ \A slot \in OccupiedSlots(edge_occupation) :
                  edge_occupation'[slot[1]][slot[2]] = edge_occupation[slot[1]][slot[2]]

\* C8: a successful add_vehicle returns the id counter's value, which no vehicle
\* has (every id given so far is below it), registers exactly one new vehicle with
\* the requested edge, position, velocity and destination tag, marks exactly that
\* cell with the new id and leaves every other vehicle and cell unchanged.
C8_AddVehicleRegistersOneVehicle == []C8_Contract /\ [][C8_Transition]_vars

\* a second vehicle, with a destination tag, has just been added after a step()
C8_Witness ==
    /\ pc = "idle" /\ time_step > 0
    /\ ret.op = "add_vehicle" /\ ret.value = Some(1)
    /\ vehicles[1].destination_zone = "centro"

-----------------------------------------------------------------------------
(* Scenario A, C9 *)

\* the velocity the only vehicle has after the acceleration of the running step()
AcceleratedA == Min({step_entry.vehicles[0].velocity + 1, VMaxScenario})

\* C9: alone on the long street with v_max = 5 and p_slow = 0, the vehicle's
\* velocity after acceleration, after braking, after randomization and, as long as
\* position + velocity stays on the street, after the movement is
\* min(velocity at the entry of step() + 1, 5), and the vehicle advances by it.
C9_ScenarioA ==
    pc \in {"braking", "randomization", "movement"} =>
        IF pc = "movement" /\ idx > 0
        THEN step_entry.vehicles[0].position + AcceleratedA
                 < NumCells(graph, vehicles[0].edge) =>
                /\ vehicles[0].velocity = AcceleratedA
                /\ vehicles[0].position = step_entry.vehicles[0].position + AcceleratedA
        ELSE vehicles[0].velocity = AcceleratedA

\* the third step() of a run has moved the vehicle at velocity 5, after steps that
\* ended at velocity 4 and at velocity 5
C9_Witness ==
    /\ MovementDone /\ raised = "none"
    /\ time_step = 2
    /\ avg_velocities[1].sum = 4 /\ avg_velocities[2].sum = 5
    /\ vehicles[0].velocity = 5
    /\ vehicles[0].position = step_entry.vehicles[0].position + 5

-----------------------------------------------------------------------------
(* Scenario B, C10 *)

\* on the one street no vehicle passes another: the trailing vehicle is the one
\* on the lower cell
Trailing(vehs) == CHOOSE a \in DOMAIN vehs : \A b \in DOMAIN vehs : vehs[a].position <= vehs[b].position
Leader(vehs) == CHOOSE a \in DOMAIN vehs : a # Trailing(vehs)

\* C10 as stated: the trailing vehicle's velocity is 0 after braking and after the
\* step, in every step() of the run.
C10_TrailingClippedInEveryStep ==
    /\ pc \in {"randomization", "movement"} => vehicles[Trailing(vehicles)].velocity = 0
    /\ (pc = "idle" /\ time_step > 0) => vehicles[Trailing(vehicles)].velocity = 0

\* the running step() found the leader exactly 1 cell ahead of the trailing vehicle
GapOneAtEntry ==
    /\ step_entry # NoEntry
    /\ step_entry.vehicles[Leader(step_entry.vehicles)].position
          = step_entry.vehicles[Trailing(step_entry.vehicles)].position + 1

\* C10 as amended: in every step() that finds the leader exactly 1 cell ahead (the
\* first step() of the run is one), the trailing vehicle's velocity is 0 after
\* braking, after randomization and after the movement, and it stays on its cell.
C10_TrailingClippedWhileGapIsOne ==
    (pc \in {"randomization", "movement"} /\ GapOneAtEntry) =>
        LET t == Trailing(step_entry.vehicles)
        IN  /\ vehicles[t].velocity = 0
            /\ vehicles[t].position = step_entry.vehicles[t].position

\* a step() that found the gap 1 is over, and in it the leader has moved away
C10_Witness ==
    /\ MovementDone /\ GapOneAtEntry
    /\ LET t == Trailing(step_entry.vehicles)
           l == Leader(step_entry.vehicles)
       IN  /\ vehicles[t].velocity = 0
           /\ vehicles[l].position > vehicles[t].position + 1

-----------------------------------------------------------------------------
(* Scenario E, C11 *)

AtDeadEnd(veh) ==
    /\ Len(OutEdges(graph, veh.edge[2])) = 0
    /\ veh.position = NumCells(graph, veh.edge) - 1
    /\ veh.velocity = 0

\* C11: a vehicle that has overflowed an edge whose end node has no outgoing edge
\* is on that edge's last cell with velocity 0 whenever a step() has ended, in the
\* step of the overflow and in every later one, for any p_slow.
C11_HaltedVehicleStays ==
    (pc = "idle" \/ raised # "none") => \A id \in halted : AtDeadEnd(vehicles[id])

-----------------------------------------------------------------------------
(* spawn_from_od_matrix, C12, C13 and C15 to C18 *)

\* frame holds a call of spawn_from_od_matrix
SpawnFrame == "scale2" \in DOMAIN frame

\* C12: a call of spawn_from_od_matrix with scale <= 0 raises ValueError, whatever
\* the O-D matrix, and registry, id counter and occupancy index are then as the
\* call found them.
C12_RejectedScaleCreatesNothing ==
    (SpawnFrame /\ frame.scale2 <= 0) =>
        /\ raised = "ValueError"
        /\ vehicles = frame.entry.vehicles
        /\ vehicle_counter = frame.entry.vehicle_counter
        /\ edge_occupation = frame.entry.edge_occupation

\* a call with scale 0 has raised on a network that holds a vehicle
C12_Witness ==
    /\ SpawnFrame /\ frame.scale2 = 0
    /\ raised = "ValueError"
    /\ VehicleIds # {}

\* C13: a call of spawn_from_od_matrix that raises for its scale leaves the shared
\* generator as the call found it, with or without a seed argument.
C13_RejectedCallKeepsGenerator ==
    (SpawnFrame /\ raised = "ValueError") => rng = frame.entry.rng

\* C15: the add_vehicle calls made for one requested vehicle, at cell 0 and at a
\* random cell together, are at most max_attempts.
C15_TriesWithinMaxAttempts ==
    SpawnFrame => Len(frame.tries) <= frame.max_attempts

\* C16: the add_vehicle calls made for one requested vehicle all name the same edge.
C16_TriesKeepTheEdge ==
    SpawnFrame =>
        \A i \in 1..Len(frame.tries), j \in 1..Len(frame.tries) :
            frame.tries[i].edge = frame.tries[j].edge

\* the nodes of a zone, and whether one of them has an outgoing edge
ZoneNodes(zone) ==
    UNION {Range(SpawnZones[i].node_ids) : i \in {k \in 1..Len(SpawnZones) : SpawnZones[k].name = zone}}
ZoneHasEdges(zone) ==
    \E e \in Edges(graph) : e[1] \in ZoneNodes(zone)

\* the sum of round(demand * scale) over the pairs that may get vehicles
RequestedTotal ==
    LET cells == UNION {{<<i, j>> : j \in 1..Len(frame.od_matrix[i].destinations)} :
                           i \in 1..Len(frame.od_matrix)}
        pairs == {pair \in cells :
                     LET row == frame.od_matrix[pair[1]]
                     IN  /\ row.destinations[pair[2]].demand > 0
                         /\ row.destinations[pair[2]].destination # row.origin
                         /\ ZoneHasEdges(row.origin)}
    IN  SumOver([pair \in pairs |->
                    RoundHalves(frame.od_matrix[pair[1]].destinations[pair[2]].demand
                                * frame.scale2)],
                pairs)

AddedByCall == Cardinality(VehicleIds) - Cardinality(DOMAIN frame.entry.vehicles)

\* C17: the value spawn_from_od_matrix returns is the number of vehicles the call
\* added to the registry, and is at most the sum of round(demand * scale) over the
\* pairs with positive demand, different zones and an origin with outgoing edges.
C17_ReturnCountsAddedVehicles ==
    (pc = "idle" /\ ret.op = "spawn_from_od_matrix") =>
        /\ ret.value = Some(AddedByCall)
        /\ AddedByCall <= RequestedTotal

\* a call has returned 1 after it was asked for 2 vehicles and dropped one
C17_Witness ==
    /\ pc = "idle" /\ ret = Returned("spawn_from_od_matrix", Some(1))
    /\ RequestedTotal = 2

\* C18: every vehicle a call of spawn_from_od_matrix has created is on an edge that
\* leaves a node of its origin zone, has a velocity within 0..v_max and carries its
\* destination zone; its pair has different zones, a positive demand and an origin
\* with outgoing edges; the call has created no other vehicle.
C18_SpawnedVehiclesFitTheirPair ==
    SpawnFrame =>
        /\ {c.id : c \in Range(frame.created)} = VehicleIds \ DOMAIN frame.entry.vehicles
        /\ \A c \in Range(frame.created) :
              /\ vehicles[c.id].edge \in Edges(graph)
              /\ vehicles[c.id].edge[1] \in ZoneNodes(c.origin)
              /\ vehicles[c.id].velocity \in 0..v_max
              /\ vehicles[c.id].destination_zone = c.destination
              /\ c.origin # c.destination
              /\ c.demand > 0
              /\ ZoneHasEdges(c.origin)
              /\ \E i \in 1..Len(frame.od_matrix) :
                    /\ frame.od_matrix[i].origin = c.origin
                    /\ OdEntry(c.destination, c.demand)
                          \in Range(frame.od_matrix[i].destinations)

\* a call has returned after creating a vehicle for norte and one for centro
C18_Witness ==
    /\ pc = "idle" /\ ret.op = "spawn_from_od_matrix"
    /\ \E c1 \in Range(frame.created), c2 \in Range(frame.created) :
          /\ c1.origin = "norte" /\ c2.origin = "centro"
          /\ vehicles[c2.id].velocity > 0

-----------------------------------------------------------------------------
(* gravity_matrix, C19 and C20 *)

GravityReturned == pc = "idle" /\ ret.op = "gravity_matrix"

\* C19: every entry of the matrix gravity_matrix returns is non-negative, for all
\* productions, attractions and costs.
C19_EntriesNonNegative ==
    GravityReturned =>
        \A origin \in frame.zones, destination \in frame.zones :
            ret.value[origin][destination].num >= 0

\* the weight the gravity model gives a destination: attraction times impedance
\* where that is positive and the pair is not a barred self-trip, else 0
ModelWeight(origin, destination) ==
    LET w == RatMul(Whole(frame.attractions[destination]),
                    Impedance(frame.costs[origin][destination], frame.friction))
    IN  IF (destination = origin /\ ~frame.allow_self_trips) \/ w.num <= 0
        THEN Whole(0) ELSE w
TotalModelWeight(origin) ==
    RatSum([destination \in frame.zones |-> ModelWeight(origin, destination)], frame.zones)

ProductionConstrained ==
    \A origin \in frame.zones :
        TotalModelWeight(origin).num > 0 =>
            /\ RatSum(ret.value[origin], frame.zones) = Whole(frame.productions[origin])
            /\ \A destination \in frame.zones :
                  ret.value[origin][destination] =
                      RatDiv(RatMul(Whole(frame.productions[origin]),
                                    ModelWeight(origin, destination)),
                             TotalModelWeight(origin))

\* Scenario C: equal productions, equal attractions, finite costs between the two
\* zones, no self-trips
ScenarioC ==
    /\ \A z1 \in frame.zones, z2 \in frame.zones :
          /\ frame.productions[z1] = frame.productions[z2]
          /\ frame.attractions[z1] = frame.attractions[z2]
          /\ z1 # z2 => frame.costs[z1][z2] \in 0..MaxCost
    /\ ~frame.allow_self_trips

FullProductionToTheOther(origin) ==
    \A destination \in frame.zones :
        ret.value[origin][destination] =
            IF destination = origin THEN Whole(0) ELSE Whole(frame.productions[origin])

\* C20 as stated: the rows of origins with positive total weight are the shares of
\* the production, and in Scenario C each zone sends its whole production to the
\* other zone and 0 to itself.
C20_ProductionConstrainedAndScenarioC ==
    GravityReturned =>
        /\ ProductionConstrained
        /\ ScenarioC => \A origin \in frame.zones : FullProductionToTheOther(origin)

\* C20 as amended: in Scenario C a zone sends its whole production to the other
\* zone when its total weight is positive, that is when the attraction is positive
\* and the impedance of the cost is positive.
C20_ProductionConstrained ==
    GravityReturned =>
        /\ ProductionConstrained
        /\ ScenarioC => \A origin \in frame.zones :
                            TotalModelWeight(origin).num > 0
                                => FullProductionToTheOther(origin)

\* gravity_matrix has returned in Scenario C, with cost 2 between the zones, and
\* each zone has sent its production of 1 to the other zone
C20_Witness ==
    /\ GravityReturned /\ ScenarioC
    /\ \A origin \in frame.zones :
          /\ frame.productions[origin] = 1
          /\ TotalModelWeight(origin).num > 0
          /\ FullProductionToTheOther(origin)
    /\ frame.costs["norte"]["centro"] = 2

-----------------------------------------------------------------------------
\* C14: step() is deterministic given the state and the stream of draws: two
\* simulations with the same network and parameters that started from the same
\* vehicles and occupancy index, have run the same number of steps and have drawn
\* the same values in the same order are in identical states (vehicles, occupancy
\* index, counter, clock, statistics, and the exception that ended the run if any).
SameDraws ==
    /\ twin # None
    /\ AtRest(Simulation) /\ AtRest(twin[1])
    /\ time_step = twin[1].time_step
    /\ step_draws = twin[1].step_draws

-----------------------------------------------------------------------------
(* gravity_matrix, C21 to C23 *)

\* C21: the matrix gravity_matrix returns has an entry for every pair of zones,
\* whether self-trips are allowed or not, and when they are not allowed the entry
\* of a zone to itself is exactly 0.
C21_FullMatrixWithoutSelfTrips ==
    GravityReturned =>
        /\ DOMAIN ret.value = frame.zones
        /\ \A origin \in frame.zones : DOMAIN ret.value[origin] = frame.zones
        /\ ~frame.allow_self_trips =>
              \A zone \in frame.zones : ret.value[zone][zone] = Whole(0)

\* self-trips are barred, the zone norte attracts and produces, and the matrix came
\* back with its row filled for the other zone
C21_Witness ==
    /\ GravityReturned
    /\ ~frame.allow_self_trips
    /\ frame.attractions["norte"] > 0 /\ frame.productions["norte"] > 0
    /\ frame.friction.name = "exponential"
    /\ ret.value["norte"]["norte"] = Whole(0)
    /\ ret.value["norte"]["centro"].num > 0

\* C22: an origin none of whose destinations has a positive weight
\* attraction * impedance(cost) has a row of zeros, whatever its production.
NoPositiveWeight(origin) ==
    \A destination \in frame.zones :
        RatMul(Whole(frame.attractions[destination]),
               Impedance(frame.costs[origin][destination], frame.friction)).num <= 0

C22_ZeroRowWithoutWeight ==
    GravityReturned =>
        \A origin \in frame.zones :
            NoPositiveWeight(origin) =>
                \A destination \in frame.zones : ret.value[origin][destination] = Whole(0)

\* norte produces 2 trips, the other zone cannot be reached, norte itself attracts
\* nothing although self-trips are allowed: its row is all 0
C22_Witness ==
    /\ GravityReturned
    /\ frame.allow_self_trips
    /\ frame.productions["norte"] = 2
    /\ frame.costs["norte"]["centro"] = Infinity
    /\ frame.attractions["centro"] > 0 /\ frame.attractions["norte"] <= 0
    /\ NoPositiveWeight("norte")
    /\ \A destination \in frame.zones : ret.value["norte"][destination] = Whole(0)

\* C23: with a friction that is neither exponential nor power, gravity_matrix
\* returns no matrix when it evaluates at least one pair of zones (here every
\* origin has the other zone to evaluate).
UnsupportedFriction == frame.friction.name \notin {"exponential", "power"}

C23_UnsupportedFrictionNeverReturns ==
    ("friction" \in DOMAIN frame /\ UnsupportedFriction) => ~GravityReturned

-----------------------------------------------------------------------------
(* compute_zone_costs, C24 *)

\* the walks without repeated node from o to d, as sequences of nodes
SimplePaths(network, o, d) ==
    UNION { { path \in [1..n -> network.nodes] :
                /\ path[1] = o /\ path[n] = d
                /\ \A i \in 1..n, j \in 1..n : i # j => path[i] # path[j]
                /\ \A i \in 1..(n - 1) :
                      \E e \in network.edges : e.u = path[i] /\ e.v = path[i + 1] } :
            n \in 1..Cardinality(network.nodes) }

\* the weight of a street between two nodes: its lightest parallel edge
StreetWeight(network, u, v) ==
    Min({e.weight : e \in {x \in network.edges : x.u = u /\ x.v = v}})

RECURSIVE PathWeight(_, _, _)
PathWeight(network, path, i) ==
    IF i >= Len(path) THEN 0
    ELSE StreetWeight(network, path[i], path[i + 1]) + PathWeight(network, path, i + 1)

\* the shortest weighted path distance from o to d, math.inf without a path
ShortestDistance(network, o, d) ==
    LET weights == {PathWeight(network, path, 1) : path \in SimplePaths(network, o, d)}
    IN  IF weights = {} THEN Infinity ELSE Min(weights)

\* the least shortest distance between a node of O and a node of D
ZoneDistance(network, O, D) ==
    LET distances == {ShortestDistance(network, o, d) : o \in Range(O), d \in Range(D)}
    IN  IF distances = {} THEN Infinity ELSE Min(distances)

CostsReturned == pc = "idle" /\ ret.op = "compute_zone_costs"
\* the call of compute_zone_costs is over: it returned or it raised
CostsCallOver == "network" \in DOMAIN frame /\ (pc = "idle" \/ raised # "none")

\* C24: compute_zone_costs returns a table with, for every ordered pair of zones
\* (O, D), the least shortest weighted distance from a node of O to a node of D,
\* infinity when no node of D can be reached from a node of O, and 0 for (O, O)
\* when O has a node.
C24_ZoneCostsAreLeastDistances ==
    CostsCallOver =>
        /\ CostsReturned
        /\ \A O \in DOMAIN frame.zones, D \in DOMAIN frame.zones :
              /\ ret.value[O][D] = ZoneDistance(frame.network, frame.zones[O], frame.zones[D])
              /\ (O = D /\ Len(frame.zones[O]) > 0) => ret.value[O][D] = 0

\* the part of C24 the code keeps: the table is right whenever the call returns
ZoneCostsWhenReturned ==
    CostsReturned =>
        \A O \in DOMAIN frame.zones, D \in DOMAIN frame.zones :
            /\ ret.value[O][D] = ZoneDistance(frame.network, frame.zones[O], frame.zones[D])
            /\ (O = D /\ Len(frame.zones[O]) > 0) => ret.value[O][D] = 0

-----------------------------------------------------------------------------
(* _discretize_edges, C25 *)

\* the least whole number of cells that cover the length
CellsCovering(length) ==
    Min({n \in 0..(length + 1) : n * cell_length >= length})

\* C25: after discretization every edge has num_cells = max(1, ceil(length /
\* cell_length)), at least 1 also for length 0, and a second run on the discretized
\* network leaves every edge's length and num_cells as the first run set them.
C25_DiscretizationIsIdempotent ==
    "results" \in DOMAIN frame =>
        \A run \in 1..Len(frame.results) :
            LET result == frame.results[run]
            IN  /\ \A i \in 1..Len(result) :
                      /\ result[i].num_cells = Max2(1, CellsCovering(result[i].length))
                      /\ result[i].num_cells >= 1
                      /\ frame.raw[i].length # NoLength =>
                            result[i].length = frame.raw[i].length
                /\ result = frame.results[1]

\* the network was discretized twice; its first edge has length 0 and one cell, its
\* second edge came without a length and got the distance between its nodes
C25_Witness ==
    /\ "results" \in DOMAIN frame
    /\ Len(frame.results) = 2
    /\ frame.raw[1].length = 0 /\ graph[1].num_cells = 1
    /\ frame.raw[2].length = NoLength /\ graph[2].length = 0
    /\ frame.results[2] = frame.results[1]

-----------------------------------------------------------------------------
(* the phases of step(), C26 to C29 *)

\* distance_to_next_vehicle of a vehicle on the occupancy index the step found
GapAtEntry(id) ==
    GetDistanceToNextVehicle(graph, step_entry.edge_occupation, v_max,
                             step_entry.vehicles[id])

BeforeMovement == pc = "movement" /\ idx = 0 /\ raised = "none"

\* C26: after braking and randomization and before movement, the velocity v of
\* every vehicle satisfies 0 <= v <= gap - 1, with gap the distance to the next
\* vehicle on the occupancy index the step started with.
C26_VelocityBelowGapBeforeMovement ==
    BeforeMovement =>
        \A id \in VehicleIds :
            /\ 0 <= vehicles[id].velocity
            /\ vehicles[id].velocity <= GapAtEntry(id) - 1

\* C27: the acceleration phase sets the velocity of every vehicle to
\* min(velocity at the entry of step() + 1, v_max), whatever velocity the vehicle
\* was created with.
C27_AccelerationIsCappedIncrement ==
    (pc = "braking" /\ raised = "none") =>
        \A id \in VehicleIds :
            vehicles[id].velocity = Min2(step_entry.vehicles[id].velocity + 1, v_max)

\* C28: the randomization phase changes the velocity of a vehicle only if it is
\* above 0, and then by exactly -1; it makes no velocity negative; with p_slow = 0
\* it changes no vehicle; it changes no position, no edge and no entry of the
\* occupancy index.
RandomizationKeepsOrSlows(id) ==
    /\ \/ vehicles'[id].velocity = vehicles[id].velocity
       \/ vehicles[id].velocity > 0 /\ vehicles'[id].velocity = vehicles[id].velocity - 1
    /\ vehicles[id].velocity >= 0 => vehicles'[id].velocity >= 0
    /\ vehicles'[id].position = vehicles[id].position
    /\ vehicles'[id].edge = vehicles[id].edge

C28_RandomizationOnlySlowsByOne ==
    [][pc = "randomization" =>
          /\ DOMAIN vehicles' = DOMAIN vehicles
          /\ \A id \in VehicleIds : RandomizationKeepsOrSlows(id)
          /\ p_slow = 0 => vehicles' = vehicles
          /\ edge_occupation' = edge_occupation]_vars

\* randomization has run with p_slow = 0.5 over two vehicles: its draw slowed the
\* first from 2 to 1 and its other draw left the second, which stood, at 0
C28_Witness ==
    /\ BeforeMovement /\ p_slow = 2 /\ time_step = 0
    /\ VehicleIds = {0, 1}
    /\ step_entry.vehicles[0].velocity = 1 /\ GapAtEntry(0) > 2
    /\ vehicles[0].velocity = 1
    /\ GapAtEntry(1) = 1 /\ vehicles[1].velocity = 0
    /\ step_draws = <<RandomDrawn(1)>>
    /\ vehicles[0].position = step_entry.vehicles[0].position

\* the transition ends a call of step(): the call returns, or an exception leaves it
StepEnds == pc = "movement" /\ raised = "none" /\ (pc' = "idle" \/ raised' # "none")

IsPrefix(s, t) == Len(s) <= Len(t) /\ \A i \in 1..Len(s) : t[i] = s[i]

\* C29: every step() increments time_step by exactly 1; it appends to
\* avg_velocities the mean of the velocities after the movement phase when there
\* is a vehicle, and nothing when there is none; avg_velocities is never longer
\* than time_step and its earlier entries are never modified.
C29_StepCountsAndRecordsMean ==
    [][/\ StepEnds =>
             /\ time_step' = time_step + 1
             /\ avg_velocities' = IF DOMAIN vehicles' # {}
                                  THEN Append(avg_velocities, MeanVelocity(vehicles'))
                                  ELSE avg_velocities
       /\ ~StepEnds => time_step' = time_step /\ avg_velocities' = avg_velocities
       /\ IsPrefix(avg_velocities, avg_velocities')
       /\ Len(avg_velocities') <= time_step']_vars

-----------------------------------------------------------------------------
(* _get_distance_to_next_vehicle, C30 *)

\* the distances d >= 1 at which a cell of the vehicle's edge, ahead of it, is occupied
OccupiedCellsAhead(veh) ==
    {d \in 1..(NumCells(graph, veh.edge) + 1) :
        /\ veh.position + d \in 0..(NumCells(graph, veh.edge) - 1)
        /\ veh.position + d \in DOMAIN edge_occupation[veh.edge]}

DistanceReturned == ret.op = "_get_distance_to_next_vehicle"

\* C30: when a cell ahead of the vehicle on its own edge is occupied, the distance
\* returned is the distance to the nearest such cell, whatever stands on the other
\* edges and even when it is above 2 * v_max.
C30_NearestOccupiedCellOnOwnEdge ==
    DistanceReturned =>
        LET ahead == OccupiedCellsAhead(vehicles[ret.value.vehicle])
        IN  ahead # {} => ret.value.distance = Min(ahead)

\* the distances remaining + k of the occupied cells k on the edges that leave the
\* end node of the vehicle's edge, as far as they are below 2 * v_max
OccupiedWithinReach(veh) ==
    LET remaining == NumCells(graph, veh.edge) - veh.position
        out == OutEdges(graph, veh.edge[2])
    IN  UNION { {remaining + k : k \in {c \in 0..(NumCells(graph, out[i]) - 1) :
                                          /\ c \in DOMAIN edge_occupation[out[i]]
                                          /\ remaining + c < 2 * v_max}} :
                i \in 1..Len(out) }

\* C31: when no cell ahead on the vehicle's own edge is occupied, the distance
\* returned is 2 * v_max only if no edge leaving the end node has an occupied cell
\* k with remaining + k < 2 * v_max; if one has, the distance returned is
\* remaining + k for such a cell, below 2 * v_max.
C31_SingleHopLookahead ==
    DistanceReturned =>
        LET veh == vehicles[ret.value.vehicle]
        IN  OccupiedCellsAhead(veh) = {} =>
                /\ ret.value.distance = 2 * v_max => OccupiedWithinReach(veh) = {}
                /\ OccupiedWithinReach(veh) # {} =>
                       ret.value.distance \in OccupiedWithinReach(veh)

-----------------------------------------------------------------------------
(* _move_vehicle, C32 to C35 *)

\* the transition is one call of _move_vehicle, for the vehicle the loop has reached
MoveCall == pc = "movement" /\ raised = "none" /\ idx < vehicle_counter /\ idx' = idx + 1

Target(veh) == veh.position + veh.velocity
StaysOnEdge(veh) == Target(veh) < NumCells(graph, veh.edge)

\* another vehicle stands on the cell
OccupiedByAnother(id, edge, position) ==
    \E o \in VehicleIds \ {id} : vehicles[o].edge = edge /\ vehicles[o].position = position

\* the call leaves every other vehicle and the slot of its cell as they were
OthersUntouched(id) ==
    \A o \in VehicleIds \ {id} :
        /\ vehicles'[o] = vehicles[o]
        /\ vehicles[o].position \in DOMAIN edge_occupation[vehicles[o].edge] =>
              /\ vehicles[o].position \in DOMAIN edge_occupation'[vehicles[o].edge]
              /\ edge_occupation'[vehicles[o].edge][vehicles[o].position] =
                     edge_occupation[vehicles[o].edge][vehicles[o].position]

Reported(result) == raised' = "none" /\ ret' = Returned("_move_vehicle", result)

\* C32: a move with target = position + velocity < num_cells. If another vehicle
\* is on the target cell, the vehicle keeps its edge and position, its old cell
\* carries its id again, its velocity is 0, the call reports failure and the other
\* vehicles and their slots are untouched; otherwise the old cell is freed, the
\* target cell carries the vehicle's id, the position is the target and the call
\* reports success.
C32_MoveWithinEdge ==
    [][(MoveCall /\ StaysOnEdge(vehicles[idx])) =>
          LET veh == vehicles[idx]
              target == Target(veh)
          IN  IF OccupiedByAnother(idx, veh.edge, target)
              THEN /\ Reported(FALSE)
                   /\ vehicles'[idx] = [veh EXCEPT !.velocity = 0]
                   /\ veh.position \in DOMAIN edge_occupation'[veh.edge]
                   /\ edge_occupation'[veh.edge][veh.position] = idx
                   /\ OthersUntouched(idx)
              ELSE /\ Reported(TRUE)
                   /\ vehicles'[idx] = [veh EXCEPT !.position = target]
                   /\ target \in DOMAIN edge_occupation'[veh.edge]
                   /\ edge_occupation'[veh.edge][target] = idx
                   /\ target # veh.position =>
                          veh.position \notin DOMAIN edge_occupation'[veh.edge]]_vars

Overflows(veh) == Target(veh) >= NumCells(graph, veh.edge)
LastCell(edge) == NumCells(graph, edge) - 1

\* C33: a vehicle that overflows an edge whose destination node has no outgoing
\* edge stays on the edge at cell num_cells - 1 with velocity 0, the call reports
\* success, and no other vehicle's edge, position, velocity or slot changes.
C33_DeadEndHalt ==
    [][(MoveCall /\ OverflowsDeadEnd(graph, vehicles[idx])) =>
          LET veh == vehicles[idx]
          IN  /\ Reported(TRUE)
              /\ vehicles'[idx] = [veh EXCEPT !.position = LastCell(veh.edge), !.velocity = 0]
              /\ OthersUntouched(idx)]_vars

\* the edge random.choice returned in the call that has just ended
ChosenEdge == step_draws'[Len(step_draws')].edge
TurnsAtNode(veh) == Overflows(veh) /\ Len(OutEdges(graph, veh.edge[2])) > 0
ResolvedCell(veh, next_edge) ==
    ClampToEdge(Target(veh) - NumCells(graph, veh.edge), NumCells(graph, next_edge))

\* C34: a vehicle overflows its edge and the resolved target cell on the chosen
\* outgoing edge is occupied: the vehicle stays on the old edge at its last cell
\* with velocity 0, the call reports failure, and the occupant of the target cell
\* and every other vehicle keep edge, position and occupancy slot.
C34_BlockedTurnHalts ==
    [][(MoveCall /\ TurnsAtNode(vehicles[idx])) =>
          LET veh == vehicles[idx]
          IN  ResolvedCell(veh, ChosenEdge) \in DOMAIN edge_occupation[ChosenEdge] =>
                  /\ Reported(FALSE)
                  /\ vehicles'[idx] = [veh EXCEPT !.position = LastCell(veh.edge), !.velocity = 0]
                  /\ OthersUntouched(idx)]_vars

\* two vehicles on the ring A->B (2 cells), B->A (1 cell), then only step() runs
InitRing ==
    \E a \in CellsOf(NetRing), b \in CellsOf(NetRing), v0 \in 0..2, v1 \in 0..2 :
        LET s1 == AfterAddVehicle(EmptyState(NetRing), 2, a[1], a[2], v0)
            s2 == AfterAddVehicle(s1, 2, b[1], b[2], v1)
        IN  /\ s2.ret # None
            /\ InitPopulated(NetRing, 2, 2, s2)

SpecRing == InitRing /\ [][NextRun]_vars

\* C35: a vehicle changes edge only in its own move of the step, only to an edge
\* that leaves the destination node of its edge, and a successful transition
\* with overflow = position + velocity - num_cells puts it on the chosen edge at
\* cell min(overflow, next_num_cells - 1), frees its old cell and keeps its velocity.
C35_OneTransitionPerStep ==
    [][/\ \A o \in VehicleIds :
              vehicles'[o].edge # vehicles[o].edge =>
                  /\ MoveCall /\ o = idx
                  /\ vehicles'[o].edge[1] = vehicles[o].edge[2]
       /\ (MoveCall /\ TurnsAtNode(vehicles[idx]) /\ Reported(TRUE)) =>
              LET veh == vehicles[idx]
                  overflow == Target(veh) - NumCells(graph, veh.edge)
                  cell == Min2(overflow, NumCells(graph, ChosenEdge) - 1)
              IN  /\ ChosenEdge[1] = veh.edge[2]
                  /\ vehicles'[idx] = [veh EXCEPT !.edge = ChosenEdge, !.position = cell]
                  /\ veh.position \notin DOMAIN edge_occupation'[veh.edge]
                  /\ cell \in DOMAIN edge_occupation'[ChosenEdge]
                  /\ edge_occupation'[ChosenEdge][cell] = idx]_vars

\* a vehicle has just entered a one-cell edge with velocity 2 from the last cell of
\* its edge (the vehicle created before it did not move and stands on the cell
\* behind that one), so its overflow of 1 was cut to the edge's only cell
C35_Witness ==
    /\ pc = "movement" /\ idx = 2 /\ vehicle_counter = 2
    /\ ret = Returned("_move_vehicle", TRUE)
    /\ C2_OccupancyAgreesWithRegistry
    /\ vehicles[0].velocity = 0 /\ vehicles[0].position = 0
    /\ NumCells(graph, vehicles[0].edge) = 2
    /\ vehicles[1].edge # vehicles[0].edge
    /\ vehicles[1].edge[1] = vehicles[0].edge[2]
    /\ NumCells(graph, vehicles[1].edge) = 1
    /\ vehicles[1].velocity = 2

-----------------------------------------------------------------------------
(* Two simulations of the same two vehicles, created in opposite orders *)

MaxOrderSteps == 1

StepAccelerateOrder ==
    StepAccelerateWithin(MaxOrderSteps,
                         [vehicles |-> vehicles, edge_occupation |-> edge_occupation])

\* the simulation that runs creates the vehicle at a, then the one at b; the
\* simulation at rest creates the one at b, then the one at a; nobody is slowed down
InitOrder ==
    \E a \in CellsOf(NetBranch), b \in CellsOf(NetBranch) :
        LET s1 == AfterAddVehicle(EmptyState(NetBranch), 2, a[1], a[2], 0)
            s2 == AfterAddVehicle(s1, 2, b[1], b[2], 0)
            t1 == AfterAddVehicle(EmptyState(NetBranch), 2, b[1], b[2], 0)
            t2 == AfterAddVehicle(t1, 2, a[1], a[2], 0)
        IN  /\ a # b
            /\ graph = DiscretizeEdges(NetBranch)
            /\ v_max = 2
            /\ p_slow = 0
            /\ vehicles = s2.vehicles
            /\ vehicle_counter = s2.vehicle_counter
            /\ edge_occupation = s2.edge_occupation
            /\ time_step = 0
            /\ avg_velocities = <<>>
            /\ pc = "idle"
            /\ idx = 0
            /\ frame = NoFrame
            /\ step_entry = NoEntry
            /\ ret = Returned("add_vehicle", s2.ret)
            /\ raised = "none"
            /\ rng = Draw(Unseeded)
            /\ halted = {}
            /\ step_draws = <<>>
            /\ twin = Some([vehicles |-> t2.vehicles, vehicle_counter |-> t2.vehicle_counter,
                            edge_occupation |-> t2.edge_occupation, time_step |-> 0,
                            avg_velocities |-> <<>>, pc |-> "idle", idx |-> 0,
                            ret |-> Returned("add_vehicle", t2.ret), raised |-> "none",
                            halted |-> {}, step_draws |-> <<>>])

NextOrder ==
    \/ StepAccelerateOrder
    \/ StepBrake
    \/ StepRandomize
    \/ StepMove
    \/ StepStatistics
    \/ Switch

SpecOrder == InitOrder /\ [][NextOrder]_vars

\* C36: the movement phase applies _move_vehicle once to every vehicle, in
\* creation order, each call on the occupancy the calls before it have left: the
\* i-th transition of the phase moves vehicle i and nobody else, by the outcome of
\* _move_vehicle on the current registry and occupancy, and the phase ends when
\* every vehicle has been visited.
C36_MovementInCreationOrder ==
    [][(pc = "movement" /\ raised = "none") =>
          IF idx < vehicle_counter
          THEN /\ idx' = idx + 1
               /\ \A o \in VehicleIds \ {idx} : vehicles'[o] = vehicles[o]
               /\ \E next_edge \in NextEdgeChoices(graph, vehicles[idx]) :
                     LET r == MoveVehicle(graph, vehicles, edge_occupation, idx, next_edge)
                     IN  /\ vehicles' = r.vehicles
                         /\ edge_occupation' = r.edge_occupation
                         /\ raised' = r.raised
          ELSE UNCHANGED <<vehicles, edge_occupation>> /\ pc' = "idle"]_vars

\* in the first step of the running simulation the vehicle created first has left
\* its cell and the vehicle created second has just entered that cell with
\* success; the simulation at rest, where the same two vehicles were created in
\* the opposite order, has made the same step with the same choice, and there
\* the vehicle that moved first was stopped on the last cell of its edge
C36_Witness ==
    /\ pc = "movement" /\ idx = 2 /\ time_step = 0
    /\ ret = Returned("_move_vehicle", TRUE)
    /\ LET first == step_entry.vehicles[0]
           second == step_entry.vehicles[1]
       IN  /\ vehicles[1].edge = first.edge /\ vehicles[1].position = first.position
           /\ second.edge # first.edge
           /\ ~(vehicles[0].edge = first.edge /\ vehicles[0].position = first.position)
           /\ twin # None
           /\ twin[1].pc = "idle" /\ twin[1].time_step = 1
           /\ twin[1].step_draws = step_draws
           /\ twin[1].vehicles[1].edge = vehicles[0].edge
           /\ twin[1].vehicles[1].position = vehicles[0].position
           /\ twin[1].vehicles[0].edge = second.edge
           /\ twin[1].vehicles[0].position = NumCells(graph, second.edge) - 1
           /\ twin[1].vehicles[0].velocity = 0
           /\ vehicles[1].velocity > 0

-----------------------------------------------------------------------------
(* Two simulations that differ in the destination zones of their vehicles *)

MaxTagSteps == 1

\* the same two vehicles in both simulations; tags gives their destination zones
Tagged(places, velocities, tags) ==
    LET s1 == AddVehicle(EmptyDict, [e \in Edges(NetBranch) |-> EmptyDict], 0, 2,
                         places[1][1], places[1][2], velocities[1], tags[1])
        s2 == AddVehicle(s1.vehicles, s1.edge_occupation, s1.vehicle_counter, 2,
                         places[2][1], places[2][2], velocities[2], tags[2])
    IN  [vehicles |-> s2.vehicles, vehicle_counter |-> s2.vehicle_counter,
         edge_occupation |-> s2.edge_occupation, time_step |-> 0,
         avg_velocities |-> <<>>, pc |-> "idle", idx |-> 0,
         ret |-> Returned("add_vehicle", s2.ret), raised |-> "none",
         halted |-> {}, step_draws |-> <<>>]

InitTags ==
    \E b \in CellsOf(NetBranch) \ {<<NetBranch[1].edge, 0>>} :
    \E velocities \in [1..2 -> 0..1] :
    \E tags \in [1..2 -> Destinations], others \in [1..2 -> Destinations] :
        LET places == << <<NetBranch[1].edge, 0>>, b >>
            s == Tagged(places, velocities, tags)
        IN  /\ tags # others
            /\ graph = DiscretizeEdges(NetBranch)
            /\ v_max = 2
            /\ p_slow = 2
            /\ vehicles = s.vehicles
            /\ vehicle_counter = s.vehicle_counter
            /\ edge_occupation = s.edge_occupation
            /\ time_step = 0
            /\ avg_velocities = <<>>
            /\ pc = "idle"
            /\ idx = 0
            /\ frame = NoFrame
            /\ step_entry = NoEntry
            /\ ret = s.ret
            /\ raised = "none"
            /\ rng = Draw(Unseeded)
            /\ halted = {}
            /\ step_draws = <<>>
            /\ twin = Some(Tagged(places, velocities, others))

NextTags ==
    \/ StepAccelerateWithin(MaxTagSteps, NoEntry)
    \/ StepBrake
    \/ StepRandomize
    \/ StepMove
    \/ StepStatistics
    \/ Switch

SpecTags == InitTags /\ [][NextTags]_vars

Untagged(vehs) == [id \in DOMAIN vehs |-> [vehs[id] EXCEPT !.destination_zone = NoZone]]
TagsOf(vehs) == [id \in DOMAIN vehs |-> vehs[id].destination_zone]

\* C37: the destination zone has no part in the dynamics and step() never
\* changes it: no transition of step() changes a vehicle's destination zone, and
\* two simulations that differ only in the destination zones of their vehicles
\* and have made the same number of steps on the same draws agree on every edge,
\* position and velocity, on the occupancy index and on the statistics.
C37_DestinationTagIsInert ==
    [][/\ twin' = twin => TagsOf(vehicles') = TagsOf(vehicles)
       /\ SameDraws =>
              /\ Untagged(vehicles) = Untagged(twin[1].vehicles)
              /\ edge_occupation = twin[1].edge_occupation
              /\ avg_velocities = twin[1].avg_velocities
              /\ raised = twin[1].raised]_vars

\* both simulations have made a step on the same draws, with a slow-down and a
\* choice of street among them, and some vehicle has a destination zone in one
\* simulation and none in the other
C37_Witness ==
    /\ SameDraws
    /\ pc = "idle" /\ raised = "none" /\ time_step = 1
    /\ RandomDrawn(1) \in Range(step_draws)
    /\ \E i \in 1..Len(step_draws) : step_draws[i].call = "choice"
    /\ TagsOf(vehicles) # TagsOf(twin[1].vehicles)
    /\ Untagged(vehicles) = Untagged(twin[1].vehicles)

-----------------------------------------------------------------------------
(* spawn_from_od_matrix, C38 *)

FreeCells(edge) == (0..(NumCells(graph, edge) - 1)) \ DOMAIN edge_occupation[edge]

\* C38: in an iteration of the loop of spawn_from_od_matrix that finds cell 0 of
\* the chosen edge occupied while the edge has a free cell, the second
\* add_vehicle call names a free cell of that edge and the vehicle is placed.
C38_RetryOnFreeCell ==
    [][(pc = "spawn_from_od_matrix" /\ raised = "none" /\ frame.requests # <<>>) =>
          LET try == frame'.tries[Len(frame'.tries)]
          IN  (0 \in DOMAIN edge_occupation[try.edge] /\ FreeCells(try.edge) # {}) =>
                  /\ try.position \in FreeCells(try.edge)
                  /\ vehicle_counter' = vehicle_counter + 1]_vars

-----------------------------------------------------------------------------
(* initialize_vehicles with any density, on a street of two cells, C39 *)

NetLane == << RawEdge("A", "B", 0, 30) >>

\* the densities tried, in tenths: from 0 to beyond 1
MaxDensityTenths == 15

\* lines 151-164, for one call in a run; the frame keeps the argument and the
\* state the call found
InitializeVehiclesAnyDensity ==
    /\ pc = "idle" /\ raised = "none"
    /\ ret.op # "initialize_vehicles"
    /\ \E density \in 0..MaxDensityTenths :
        LET num_vehicles == (TotalCells(graph) * density) \div 10
        IN  frame' = [num_vehicles |-> num_vehicles, added |-> 0, attempts |-> 0,
                      max_attempts |-> num_vehicles * 10, density |-> density,
                      entry |-> [vehicles |-> vehicles, edge_occupation |-> edge_occupation]]
    /\ pc' = "initialize_vehicles"
    /\ UNCHANGED <<config, stats, vehicles, vehicle_counter, edge_occupation, idx,
                   step_entry, ret, raised, rng, halted, step_draws, twin>>

InitLane == InitWith(NetLane, 2, 2)

NextDensity ==
    \/ (ret.op # "initialize_vehicles" /\ AddVehicleCall)
    \/ InitializeVehiclesAnyDensity
    \/ InitializeVehiclesAttempt
    \/ InitializeVehiclesReturn

SpecDensity == InitLane /\ [][NextDensity]_vars

\* the loop is a loop of one thread: an iteration that can run does run
SpecDensityFair ==
    /\ SpecDensity
    /\ WF_vars(InitializeVehiclesAttempt)
    /\ WF_vars(InitializeVehiclesReturn)

Initializing == pc = "initialize_vehicles" /\ raised = "none"

\* what the loop has done so far is within the limits of the call
WithinLimits ==
    Initializing =>
        LET new == VehicleIds \ DOMAIN frame.entry.vehicles
        IN  /\ frame.num_vehicles = (TotalCells(graph) * frame.density) \div 10
            /\ frame.attempts <= 10 * frame.num_vehicles
            /\ frame.added <= frame.num_vehicles
            /\ Cardinality(new) = frame.added
            /\ \A id \in new :
                  /\ vehicles[id].velocity = 0
                  /\ vehicles[id].position \notin DOMAIN frame.entry.edge_occupation[vehicles[id].edge]
                  /\ \A o \in VehicleIds \ {id} :
                        ~(/\ vehicles[o].edge = vehicles[id].edge
                          /\ vehicles[o].position = vehicles[id].position)

\* C39: initialize_vehicles(density) terminates: it makes at most
\* 10 * num_vehicles add_vehicle attempts, with num_vehicles the floor of
\* total_cells * density, adds at most num_vehicles vehicles, each with velocity 0
\* on a cell of its own that was free, makes no attempt once num_vehicles are
\* added, and returns, whatever the density and however full the network.
C39_InitializeVehiclesTerminates ==
    /\ []WithinLimits
    /\ [][(Initializing /\ frame'.attempts > frame.attempts) =>
              frame.added < frame.num_vehicles]_vars
    /\ Initializing ~> (pc = "idle")

\* the call was made with density 1.5 on a full street and has used up its thirty
\* attempts without adding anybody
C39_Witness ==
    /\ Initializing
    /\ frame.density >= 10
    /\ Cardinality(DOMAIN frame.entry.vehicles) = TotalCells(graph)
    /\ frame.num_vehicles > 0
    /\ frame.attempts = frame.max_attempts
    /\ frame.added = 0

-----------------------------------------------------------------------------
(* step(), C40 *)

\* a roundabout of three cells
NetRoundabout == << RawEdge("U", "U", 0, 45) >>

\* two vehicles on the roundabout, then only step() runs
InitLap ==
    \E a \in CellsOf(NetRoundabout), b \in CellsOf(NetRoundabout),
       v0 \in 0..2, v1 \in 0..2 :
        LET s1 == AfterAddVehicle(EmptyState(NetRoundabout), 2, a[1], a[2], v0)
            s2 == AfterAddVehicle(s1, 2, b[1], b[2], v1)
        IN  /\ s2.ret # None
            /\ InitPopulated(NetRoundabout, 2, 2, s2)

SpecLap == InitLap /\ [][NextRun]_vars

\* both vehicles were on one edge when the step began, a ahead of b
AheadAtEntry(a, b) ==
    /\ step_entry.vehicles[a].edge = step_entry.vehicles[b].edge
    /\ step_entry.vehicles[a].position > step_entry.vehicles[b].position

BothStillOn(a, b) ==
    /\ vehicles[a].edge = step_entry.vehicles[a].edge
    /\ vehicles[b].edge = step_entry.vehicles[b].edge

\* C40: two vehicles that are on the same edge before a step() and are both on
\* it after the step keep their order: the one that was ahead is strictly ahead.
C40_NoOvertaking ==
    (MovementDone /\ raised = "none") =>
        \A a \in VehicleIds, b \in VehicleIds :
            (AheadAtEntry(a, b) /\ BothStillOn(a, b)) =>
                vehicles[a].position > vehicles[b].position

\* the vehicle has not gone round: it has not passed the end of its edge and come
\* back onto it at its start, behind the cell it began the step on
NotGoneRound(a) == vehicles[a].position >= step_entry.vehicles[a].position

\* C40, amended: two vehicles that are on the same edge before a step() and are
\* both on it after the step keep their order, the one that was ahead being
\* strictly ahead, unless the one ahead has left the edge by its end and entered
\* it again (a self-loop).
C40_NoOvertakingUnlessGoneRound ==
    (MovementDone /\ raised = "none") =>
        \A a \in VehicleIds, b \in VehicleIds :
            (AheadAtEntry(a, b) /\ BothStillOn(a, b) /\ NotGoneRound(a)) =>
                vehicles[a].position > vehicles[b].position

\* the vehicle behind has advanced in this step and the one ahead, which has not
\* gone round, is still ahead of it
C40_Witness ==
    /\ MovementDone /\ raised = "none"
    /\ \E a \in VehicleIds, b \in VehicleIds :
          /\ AheadAtEntry(a, b) /\ BothStillOn(a, b) /\ NotGoneRound(a)
          /\ vehicles[b].position > step_entry.vehicles[b].position
          /\ vehicles[a].position > vehicles[b].position

====
